---- MODULE Spec2Model ----
(***************************************************************************)
(* Chunked media ingestion and transcode-publish pipeline of the           *)
(* gaza-name-project backend (apps/backend/src).                           *)
(*                                                                         *)
(* The specifications share the record store (the martyrs table) and the   *)
(* object store (the MinIO bucket):                                        *)
(*   Spec         POST /process-video of routes/uploadRoutes.ts and POST   *)
(*                /api/upload-video of index.ts: download, remux,          *)
(*                transcode, publish, commit, rollback.                    *)
(*   SpecChunks   POST /upload-video-chunk, in the variants of index.ts,   *)
(*                of routes/uploadRoutes.ts and of the Next.js route.      *)
(*   SpecSweep    the same handlers with the clock and the periodic sweep  *)
(*                of stale sessions.                                       *)
(*   SpecFinalize POST /finalize-video-upload of index.ts and of           *)
(*                routes/uploadRoutes.ts, on sessions filled by chunks.    *)
(*   SpecDb       the database statements of a commit and of a rollback    *)
(*                on one record, interleaved at their awaits.              *)
(*   SpecRetry, SpecTools, SpecPublish                                     *)
(*                retryOperation, the ffmpeg runs with their timers, the   *)
(*                publish of manifest and segments.                        *)
(*   SpecReaper, SpecFaults, SpecScratch                                   *)
(*                utils/cleanup.ts on the scratch directories, with        *)
(*                failing file system calls, and beside a running job.     *)
(*   SpecPair     two uploads under two uploadIds.                         *)
(*   SpecClient   uploadMedia of RecordingSection.tsx against index.ts.    *)
(*   SpecRecorder the upload queue of the recorder hook.                   *)
(* An action is the code between two awaits of a handler: Node runs each   *)
(* such stretch to completion before any other callback.                   *)
(***************************************************************************)
EXTENDS Integers, Sequences, FiniteSets, TLC

(* ---- bounds of the model ---- *)
MaxSegs == 2
MaxChunks == 2
MaxTicks == 13
MaxDelays == 3
MaxHalfMinutes == 12
MaxHours == 26
MaxBorn == 3
MaxQueued == 1
MaxJobs == 1
MaxQuiet == 1
MaxBlobs == 5

(* ---- program constants ---- *)
MaxRetries == 3
ChunkMaxRetries == 3
SegmentConcurrency == 5
SweepEveryMs == 300000
StaleAfterMs == 3600000
RetryDelayMs == 1000
RemuxTimeoutMs == 30000
TranscodeTimeoutMs == 300000
MaxAgeMs == 86400000
ReaperEveryMs == 3600000

Records == {1}
Reqs == {1}
SegIds == 1..MaxSegs
(* The segments of a transcode that wrote more files than p-limit runs at
   once: MaxQueued of them wait. *)
PubSegs == 1..(SegmentConcurrency + MaxQueued)

VARIABLES
  martyrs,   \* the martyrs table: db_id -> row (db.ts)
  bucket,    \* the MinIO bucket: manifest and segment objects per record
  now,       \* the clock read by Date.now() and CURRENT_TIMESTAMP
  req,       \* the /process-video requests in flight, one per slot
  hist,      \* history of the attempt in each slot (not program state)
  impl,      \* the file whose chunk handlers and uploadChunks map are run
  uploadChunks,  \* the map uploadId -> upload session of that file
  chunkRes,  \* the response to the last chunk request
  fwd,       \* route.ts: forwards of a complete file awaiting the backend
  fin,       \* the finalize requests in flight, one per slot
  tx,        \* handlers at their statements on one record, one per slot
  retry,     \* the calls of retryOperation in progress, one per slot
  tool,      \* remuxWebM and the transcode of one request: process and timer
  dirs,      \* the entries of processedDir: name -> mtime
  job,       \* a transcode job and its scratch directory, on the clock
  sweepLog,  \* what the last run of the reaper logged and how it ended
  client,    \* RecordingSection.tsx: uploadMedia at its awaits
  recorder   \* the recorder hook: upload queue, flag, calls of uploadChunk

pipeVars == <<req, hist>>
chunkVars == <<impl, uploadChunks, chunkRes, fwd, fin>>
txVars == <<tx>>
utilVars == <<retry, tool, dirs>>
edgeVars == <<job, sweepLog, client, recorder>>
vars ==
  <<martyrs, bucket, now, req, hist, impl, uploadChunks, chunkRes, fwd, fin, tx,
    retry, tool, dirs, job, sweepLog, client, recorder>>

NULL == 0
NullPath == <<>>

(* Object keys: `video/${selectedNameId}/manifest.m3u8` *)
ManifestKey(id) == <<"video", id, "manifest.m3u8">>

(* ======================= record store (db.ts) ========================== *)

(* Variant: the UPDATE without the condition on is_recorded. *)
markNameAsRecordedAlways(db, dbId, t) ==
  IF dbId \in DOMAIN db
    THEN [db EXCEPT ![dbId].is_recorded = TRUE, ![dbId].recorded_at = t]
    ELSE db

(* UPDATE martyrs SET is_recorded = TRUE, recorded_at = CURRENT_TIMESTAMP
   WHERE db_id = $1 AND is_recorded = FALSE *)
markNameAsRecorded(db, dbId, t) ==
  IF dbId \in DOMAIN db /\ ~db[dbId].is_recorded
    THEN [db EXCEPT ![dbId].is_recorded = TRUE, ![dbId].recorded_at = t]
    ELSE db

(* rows.length > 0: the success field of markNameAsRecorded's result *)
markNameAsRecordedSuccess(db, dbId) ==
  dbId \in DOMAIN db /\ ~db[dbId].is_recorded

(* Variant: the UPDATE flips is_recorded instead of clearing it. *)
markNameAsUnrecordedFlip(db, dbId) ==
  IF dbId \in DOMAIN db
    THEN [db EXCEPT ![dbId].is_recorded = ~@,
                    ![dbId].recorded_at = NULL,
                    ![dbId].processed_audio_path = NullPath]
    ELSE db

(* UPDATE martyrs SET is_recorded = FALSE, recorded_at = NULL,
   processed_audio_path = NULL WHERE db_id = $1 *)
markNameAsUnrecorded(db, dbId) ==
  IF dbId \in DOMAIN db
    THEN [db EXCEPT ![dbId].is_recorded = FALSE,
                    ![dbId].recorded_at = NULL,
                    ![dbId].processed_audio_path = NullPath]
    ELSE db

(* UPDATE martyrs SET processed_video_path = $2 WHERE db_id = $1 *)
updateProcessedVideoPath(db, dbId, filePath) ==
  IF dbId \in DOMAIN db
    THEN [db EXCEPT ![dbId].processed_video_path = filePath]
    ELSE db

(* UPDATE martyrs SET processed_audio_path = $2 WHERE db_id = $1 *)
updateProcessedAudioPath(db, dbId, filePath) ==
  IF dbId \in DOMAIN db
    THEN [db EXCEPT ![dbId].processed_audio_path = filePath]
    ELSE db

(* A statement the record store fails (pool.query throws) changes nothing;
   the three functions catch the error and return success: false. *)
Query(dbOk, after, before) == IF dbOk THEN after ELSE before

(* ======================= retryOperation ================================ *)

(* for (attempt = 1; attempt <= maxRetries; attempt++): the operation
   throws on its first `fails` invocations.  The result is the attempt
   that returned, or 0 when every attempt threw (the final throw). *)
RECURSIVE retryLoop(_, _, _)
retryLoop(attempt, fails, maxRetries) ==
  IF attempt > maxRetries THEN 0
  ELSE IF attempt > fails THEN attempt
  ELSE retryLoop(attempt + 1, fails, maxRetries)

retryOperation(fails, maxRetries) == retryLoop(1, fails, maxRetries)

RetrySucceeds(fails, maxRetries) == retryOperation(fails, maxRetries) # 0


(* ============ POST /process-video and POST /api/upload-video =========== *)
(* The two handlers run the same stages; route says which one a request   *)
(* is in.  Line numbers are those of routes/uploadRoutes.ts unless         *)
(* index.ts is named.                                                      *)

FreshRow ==
  [is_recorded |-> FALSE, recorded_at |-> NULL,
   processed_audio_path |-> NullPath, processed_video_path |-> NullPath]

(* The row a successful /process-video leaves behind. *)
PublishedRow(id, t) ==
  [is_recorded |-> TRUE, recorded_at |-> t,
   processed_audio_path |-> NullPath, processed_video_path |-> ManifestKey(id)]

NoSegs == [s \in PubSegs |-> "none"]

IdleReq ==
  [route |-> "none", pc |-> "idle", selectedNameId |-> 0, res |-> 0,
   origInBucket |-> FALSE, tempPath |-> FALSE, remuxedPath |-> FALSE,
   outputDir |-> FALSE, unlinking |-> FALSE,
   prom |-> "none", ff |-> "none", timer |-> "unset",
   timeoutTriggered |-> FALSE,
   endh |-> "none", nseg |-> 0, seg |-> NoSegs, markResult |-> "none"]

(* Variant: the last call of resolve() or reject() wins. *)
SettleLast(p, outcome) == outcome

(* resolve()/reject() of a promise settle it once; later calls do nothing. *)
Settle(p, outcome) == IF p = "pending" THEN outcome ELSE p

InFlight(sg) == {s \in PubSegs : sg[s] = "inflight"}
Queued(sg) == {s \in PubSegs : sg[s] = "queued"}
Min(S) == CHOOSE x \in S : \A y \in S : x <= y

(* Variant: every task starts at once. *)
StartSegmentsUnlimited(n) ==
  [s \in PubSegs |-> IF s > n THEN "none" ELSE "inflight"]

(* const limit = pLimit(5); segments.map(segment => limit(...)): the first
   five tasks start at once, the others wait in p-limit's queue. *)
StartSegments(n) ==
  [s \in PubSegs |-> IF s > n THEN "none"
                    ELSE IF s <= SegmentConcurrency THEN "inflight"
                    ELSE "queued"]

(* A finished task lets p-limit start the next queued one. *)
SettleSegment(sg, s, outcome) ==
  LET one == [sg EXCEPT ![s] = outcome] IN
  IF Queued(one) = {} THEN one
  ELSE [one EXCEPT ![Min(Queued(one))] = "inflight"]

(* await Promise.all(uploadPromises): fulfilled when every task is done,
   rejected as soon as one task has failed. *)
AllSegmentsUploaded(sg, n) == \A s \in 1..n : sg[s] = "done"
SomeSegmentFailed(sg, n) == \E s \in 1..n : sg[s] = "failed"

(* No callback of the request is still to run: the slot can serve again. *)
Quiescent(q) ==
  /\ q.pc \in {"idle", "done"}
  /\ q.endh \in {"none", "exit"}
  /\ q.timer # "armed"
  /\ InFlight(q.seg) = {}
  /\ ~q.unlinking

(* What nothing reads again is dropped from the state:
   - the settled tasks' results once Promise.all has settled, the segment
     count once the uploads are joined, markResult once the handler is
     past the path update;
   - the timer and its flag once the promise is settled and ffmpeg has
     exited: the callback's kill and reject then do nothing, and
     timeoutTriggered is read only by the 'end' handler;
   - the closure of a request that has responded and has no callback left,
     and the source object's key, which is unique to the request. *)
DropSettled(endh, sg) ==
  IF endh = "segments" THEN sg
  ELSE [s \in PubSegs |-> IF sg[s] \in {"done", "failed"} THEN "none" ELSE sg[s]]

Tidy(q) ==
  LET q1 == [q EXCEPT !.seg = DropSettled(q.endh, @),
                      !.nseg = IF q.endh \in {"manifest", "segments"} THEN @ ELSE 0,
                      !.markResult = IF q.endh = "path" THEN @ ELSE "none"]
      q2 == IF q1.prom \in {"resolved", "rejected"} /\ q1.ff # "running"
              THEN [q1 EXCEPT !.timer = "unset", !.timeoutTriggered = FALSE]
              ELSE q1
  IN IF q2.pc = "done"
       THEN [q2 EXCEPT !.origInBucket = FALSE,
                       !.route = IF Quiescent(q2) THEN "none" ELSE @,
                       !.prom = IF Quiescent(q2) THEN "none" ELSE @,
                       !.ff = IF Quiescent(q2) THEN "none" ELSE @,
                       !.endh = IF Quiescent(q2) THEN "none" ELSE @]
       ELSE q2

(* utils/fileUtils safeUnlink(path): fs.unlink(path, callback) is started
   and not awaited; true when an unlink of a file that exists is pending
   after the call. *)
safeUnlink(q) == q.unlinking \/ q.tempPath \/ q.remuxedPath

(* ---- history of the audited attempt ---- *)

(* The results of the two statements of the commit that a success response
   carries: "absent" for a result the body does not hold. *)
NoBody == [dbMarkUpdate |-> "none", dbPathUpdate |-> "none"]

(* index.ts 529-535: resolve({message, processedFile, dbMarkUpdate:
   markResult, dbPathUpdate: pathUpdateResult, duration}), sent as the body.
   uploadRoutes.ts 663-676: {message, duration, stats}. *)
SuccessBody(route, markResult, pathUpdateResult) ==
  IF route = "upload-video"
    THEN [dbMarkUpdate |-> markResult, dbPathUpdate |-> pathUpdateResult]
    ELSE [dbMarkUpdate |-> "absent", dbPathUpdate |-> "absent"]

(* dbMark and dbPath are the success fields of the results of the commit's
   statements; body is what the success response carried of them; resThrew
   says that a call of res.json() threw because a response was out;
   removeCalls holds the object keys minioClient.removeObject was called
   with. *)
NoHist ==
  [pre |-> FALSE, failure |-> "none", rolledBack |-> FALSE,
   nseg |-> 0, manifest |-> FALSE, uploaded |-> {}, committed |-> FALSE,
   dbMark |-> "none", dbPath |-> "none", body |-> NoBody, resThrew |-> FALSE,
   removeCalls |-> {}]

SetFailure(h, kind) ==
  IF h.failure = "none" THEN [h EXCEPT !.failure = kind] ELSE h

Audit(r, h) == hist' = [hist EXCEPT ![r] = h]

(* Lines 378-433: the fields are present, the attempt starts and awaits the
   download of the source object. *)
P_Start(r, id) ==
  /\ Quiescent(req[r])
  /\ req' = [req EXCEPT ![r] = Tidy(
       [IdleReq EXCEPT !.route = "process-video", !.pc = "download",
                       !.selectedNameId = id, !.origInBucket = TRUE])]
  /\ Audit(r, [NoHist EXCEPT !.pre = martyrs[id].is_recorded])
  /\ UNCHANGED <<martyrs, bucket, now, chunkVars, txVars, utilVars, edgeVars>>

(* index.ts 298-552: POST /api/upload-video.  The file and the name id are
   present; the temporary directory is made, ffprobe and ffmpeg are started
   and the 5 minute timer is armed. *)
P_StartUpload(r, id) ==
  /\ Quiescent(req[r])
  /\ req' = [req EXCEPT ![r] = Tidy(
       [IdleReq EXCEPT !.route = "upload-video", !.pc = "ffmpeg",
                       !.selectedNameId = id, !.tempPath = TRUE,
                       !.outputDir = TRUE, !.prom = "pending",
                       !.ff = "running", !.timer = "armed"])]
  /\ Audit(r, [NoHist EXCEPT !.pre = martyrs[id].is_recorded])
  /\ UNCHANGED <<martyrs, bucket, now, chunkVars, txVars, utilVars, edgeVars>>

(* index.ts 369-379: ffprobe's callback reports an error and rejects the
   promise; ffmpeg is not stopped. *)
P_ProbeError(r) ==
  /\ req[r].route = "upload-video"
  /\ req[r].prom = "pending"
  /\ req' = [req EXCEPT ![r] = Tidy([@ EXCEPT !.prom = "rejected"])]
  /\ Audit(r, SetFailure(hist[r], "probe"))
  /\ UNCHANGED <<martyrs, bucket, now, chunkVars, txVars, utilVars, edgeVars>>

(* Lines 427-442: retryOperation(fGetObject) settles; on success the remux
   is started. *)
P_Download(r, fails) ==
  /\ req[r].pc = "download"
  /\ req' = [req EXCEPT ![r] = Tidy(
       IF RetrySucceeds(fails, MaxRetries)
         THEN [@ EXCEPT !.pc = "remux", !.tempPath = TRUE]
         ELSE [@ EXCEPT !.pc = "catch"])]
  /\ Audit(r, IF RetrySucceeds(fails, MaxRetries) THEN hist[r]
                 ELSE SetFailure(hist[r], "download"))
  /\ UNCHANGED <<martyrs, bucket, now, chunkVars, txVars, utilVars, edgeVars>>

(* Lines 442-661: remuxWebM settles ("end", "error" or the 30 s timer); on
   success the output directory is made, ffmpeg is started and the 5 minute
   timer is armed. *)
P_Remux(r, outcome) ==
  /\ req[r].pc = "remux"
  /\ req' = [req EXCEPT ![r] = Tidy(
       IF outcome = "end"
         THEN [@ EXCEPT !.pc = "ffmpeg", !.remuxedPath = TRUE,
                        !.outputDir = TRUE, !.prom = "pending",
                        !.ff = "running", !.timer = "armed"]
         ELSE [@ EXCEPT !.pc = "catch"])]
  /\ Audit(r, IF outcome = "end" THEN hist[r]
                 ELSE SetFailure(hist[r], IF outcome = "timeout"
                                         THEN "remux timeout" ELSE "remux"))
  /\ UNCHANGED <<martyrs, bucket, now, chunkVars, txVars, utilVars, edgeVars>>

(* Lines 541-546: ffmpeg's 'error' event rejects the promise. *)
P_FfmpegError(r) ==
  /\ req[r].ff = "running"
  /\ req' = [req EXCEPT ![r] = Tidy(
       [@ EXCEPT !.ff = "errored",
                 !.prom = Settle(@, "rejected")])]
  /\ Audit(r, SetFailure(hist[r], "transcode"))
  /\ UNCHANGED <<martyrs, bucket, now, chunkVars, txVars, utilVars, edgeVars>>

(* Lines 547-565: ffmpeg's 'end' event; unless the timer has fired the
   handler starts the manifest upload.  n segments were written.
   index.ts 464-492: the handler does not read timeoutTriggered; it lists
   the temporary directory first, which throws when the directory is gone. *)
P_FfmpegEnd(r, n) ==
  LET skip == req[r].route = "process-video" /\ req[r].timeoutTriggered
      gone == req[r].route = "upload-video" /\ ~req[r].outputDir IN
  /\ req[r].ff = "running"
  /\ req' = [req EXCEPT ![r] = Tidy(
       IF skip THEN [@ EXCEPT !.ff = "ended", !.endh = "exit"]
       ELSE IF gone THEN [@ EXCEPT !.ff = "ended", !.endh = "catch"]
       ELSE [@ EXCEPT !.ff = "ended", !.endh = "manifest", !.nseg = n])]
  /\ Audit(r, IF skip THEN hist[r]
                 ELSE IF gone THEN SetFailure(hist[r], "transcode")
                 ELSE [hist[r] EXCEPT !.nseg = n])
  /\ UNCHANGED <<martyrs, bucket, now, chunkVars, txVars, utilVars, edgeVars>>

(* Lines 653-660: the 5 minute timer, never cleared, fires. *)
P_Timer(r) ==
  /\ req[r].timer = "armed"
  /\ req' = [req EXCEPT ![r] = Tidy(
       [@ EXCEPT !.timer = "fired", !.timeoutTriggered = TRUE,
                 !.ff = IF @ = "running" THEN "killed" ELSE @,
                 !.prom = Settle(@, "rejected")])]
  /\ Audit(r, IF req[r].prom = "pending"
                 THEN SetFailure(hist[r], "transcode timeout") ELSE hist[r])
  /\ UNCHANGED <<martyrs, bucket, now, chunkVars, txVars, utilVars, edgeVars>>

(* The keys of the objects of an attempt besides the manifest: the source
   object (objectName) and segment s of the published stream. *)
SourceKey == <<"source">>
SegmentKey(id, s) == <<"video", id, "segment", s>>

(* The attempts of an upload: retryOperation(..., 3, ...) in /process-video,
   a single call in /api/upload-video. *)
Attempts(route) == IF route = "upload-video" THEN 1 ELSE MaxRetries

(* Variant: the segment uploads start whether or not the manifest is up. *)
AfterManifestAnyway(ok, n) == StartSegments(n)

(* Lines 559-575: a rejected manifest upload throws out of the try block
   before the segments are listed. *)
AfterManifest(ok, n) == IF ok THEN StartSegments(n) ELSE NoSegs

(* Lines 559-591: retryOperation(uploadHLSManifest) settles.  The upload
   reads the manifest from the output directory.  On success the segment
   files are listed and their uploads started. *)
P_UploadManifest(r, fails) ==
  LET id == req[r].selectedNameId
      ok == RetrySucceeds(fails, Attempts(req[r].route)) /\ req[r].outputDir IN
  /\ req[r].endh = "manifest"
  /\ IF ok
       THEN /\ bucket' = [bucket EXCEPT !.manifest[id] = req[r].nseg]
            /\ req' = [req EXCEPT ![r] = Tidy(
                 [@ EXCEPT !.endh = "segments",
                           !.seg = AfterManifest(ok, req[r].nseg)])]
       ELSE /\ bucket' = bucket
            /\ req' = [req EXCEPT ![r] = Tidy(
                 [@ EXCEPT !.endh = "catch",
                           !.seg = AfterManifest(ok, req[r].nseg)])]
  /\ Audit(r, IF ok THEN [hist[r] EXCEPT !.manifest = TRUE]
                 ELSE SetFailure(hist[r], "upload"))
  /\ UNCHANGED <<martyrs, now, chunkVars, txVars, utilVars, edgeVars>>

(* Variant: the uploads are only joined, their results are not read. *)
AfterSegmentSettled(route, endh, sg, n) ==
  IF endh # "segments" THEN endh
  ELSE IF \A s \in 1..n : sg[s] \in {"done", "failed"} THEN "mark"
  ELSE "segments"

(* The end handler's position once segment s has settled.
   index.ts 513-517: await Promise.allSettled(uploadPromises) waits for every
   task, then the handler throws if one of them was rejected. *)
AfterSegment(route, endh, sg, n) ==
  IF endh # "segments" THEN endh
  ELSE IF route = "upload-video" /\ InFlight(sg) \cup Queued(sg) # {}
    THEN "segments"
  ELSE IF SomeSegmentFailed(sg, n) THEN "catch"
  ELSE IF AllSegmentsUploaded(sg, n) THEN "mark"
  ELSE "segments"

(* Lines 576-591: one segment's retryOperation(uploadHLSSegment) settles. *)
P_UploadSegment(r, s, fails) ==
  LET id == req[r].selectedNameId
      ok == RetrySucceeds(fails, Attempts(req[r].route)) /\ req[r].outputDir
      sg == SettleSegment(req[r].seg, s, IF ok THEN "done" ELSE "failed")
      to == AfterSegment(req[r].route, req[r].endh, sg, req[r].nseg) IN
  /\ req[r].seg[s] = "inflight"
  /\ bucket' = IF ok THEN [bucket EXCEPT !.segs[id] = @ \cup {s}] ELSE bucket
  /\ req' = [req EXCEPT ![r] = Tidy(
       [@ EXCEPT !.seg = sg, !.endh = to])]
  /\ Audit(r, IF ok THEN [hist[r] EXCEPT !.uploaded = @ \cup {s}]
                 ELSE SetFailure(hist[r], "upload"))
  /\ UNCHANGED <<martyrs, now, chunkVars, txVars, utilVars, edgeVars>>

(* Lines 602-608: retryOperation(markNameAsRecorded) returns; the function
   never throws, so the first attempt's result is taken. *)
P_Mark(r, dbOk) ==
  LET id == req[r].selectedNameId IN
  /\ req[r].endh = "mark"
  /\ martyrs' = Query(dbOk, markNameAsRecorded(martyrs, id, now), martyrs)
  /\ req' = [req EXCEPT ![r] = Tidy(
       [@ EXCEPT !.endh = "path",
                 !.markResult =
                   IF ~dbOk THEN "DB error."
                   ELSE IF markNameAsRecordedSuccess(martyrs, id)
                     THEN "recorded" ELSE "not recorded"])]
  /\ Audit(r, [(IF dbOk THEN hist[r] ELSE SetFailure(hist[r], "record update"))
                 EXCEPT !.committed = TRUE,
                        !.dbMark = IF dbOk /\ markNameAsRecordedSuccess(martyrs, id)
                                     THEN "success" ELSE "failure"])
  /\ UNCHANGED <<bucket, now, chunkVars, txVars, utilVars, edgeVars>>

(* Lines 610-644: retryOperation(updateProcessedVideoPath) returns; the
   output directory is removed (fs.rmSync), the unlinks of the source files
   are started (safeUnlink) and the promise is resolved. *)
P_Path(r, dbOk) ==
  LET id == req[r].selectedNameId IN
  /\ req[r].endh = "path"
  /\ martyrs' = Query(dbOk,
                      updateProcessedVideoPath(martyrs, id, ManifestKey(id)),
                      martyrs)
  /\ req' = [req EXCEPT ![r] = Tidy(
       [@ EXCEPT !.endh = "exit", !.outputDir = FALSE,
                 !.unlinking = safeUnlink(req[r]),
                 !.prom = Settle(@, "resolved")])]
  /\ Audit(r, [(IF dbOk THEN hist[r] ELSE SetFailure(hist[r], "record update"))
                 EXCEPT !.dbPath = IF dbOk THEN "success" ELSE "failure"])
  /\ UNCHANGED <<bucket, now, chunkVars, txVars, utilVars, edgeVars>>

(* Lines 645-649: the end handler's catch: rollback, then reject. *)
P_EndCatch(r, dbOk) ==
  LET id == req[r].selectedNameId IN
  /\ req[r].endh = "catch"
  /\ martyrs' = Query(dbOk, markNameAsUnrecorded(martyrs, id), martyrs)
  /\ req' = [req EXCEPT ![r] = Tidy(
       [@ EXCEPT !.endh = "exit",
                 !.prom = Settle(@, "rejected")])]
  /\ Audit(r, [hist[r] EXCEPT !.rolledBack = TRUE])
  /\ UNCHANGED <<bucket, now, chunkVars, txVars, utilVars, edgeVars>>

(* The callback of fs.unlink: the files are gone, or the unlink failed and
   the error is logged. *)
P_Unlinked(r, ok) ==
  /\ req[r].unlinking
  /\ req' = [req EXCEPT ![r] = Tidy(
       [@ EXCEPT !.unlinking = FALSE,
                 !.tempPath = IF ok THEN FALSE ELSE @,
                 !.remuxedPath = IF ok THEN FALSE ELSE @])]
  /\ Audit(r, hist[r])
  /\ UNCHANGED <<martyrs, bucket, now, chunkVars, txVars, utilVars, edgeVars>>

(* Lines 389-398: the response's 10 minute socket timer fires while the
   request is being processed: 504, unless a response was sent. *)
P_ResTimeout(r) ==
  /\ req[r].pc \notin {"idle", "done"}
  /\ req[r].res = 0
  /\ req' = [req EXCEPT ![r] = Tidy([@ EXCEPT !.res = 504])]
  /\ Audit(r, SetFailure(hist[r], "response timeout"))
  /\ UNCHANGED <<martyrs, bucket, now, chunkVars, txVars, utilVars, edgeVars>>

(* Lines 663-677: the promise was fulfilled: the success response.  Once
   the 504 is out, res.json() throws inside the try block.
   index.ts 553-556: the response is sent only if (!res.headersSent). *)
P_Respond(r) ==
  /\ req[r].pc = "ffmpeg"
  /\ req[r].prom = "resolved"
  /\ req' = [req EXCEPT ![r] = Tidy(
       IF req[r].res = 0
         THEN [@ EXCEPT !.pc = "done", !.res = 200]
       ELSE IF req[r].route = "upload-video"
         THEN [@ EXCEPT !.pc = "done"]
       ELSE [@ EXCEPT !.pc = "catch"])]
  /\ Audit(r, IF req[r].res = 0
                 THEN [hist[r] EXCEPT !.body =
                         SuccessBody(req[r].route, hist[r].dbMark, hist[r].dbPath)]
               ELSE IF req[r].route = "upload-video" THEN hist[r]
               ELSE [hist[r] EXCEPT !.resThrew = TRUE])
  /\ UNCHANGED <<martyrs, bucket, now, chunkVars, txVars, utilVars, edgeVars>>

(* The handler's try block has thrown, or the awaited promise is rejected. *)
Caught(q) == q.pc = "catch" \/ (q.pc = "ffmpeg" /\ q.prom = "rejected")

(* index.ts 557-561: the catch of /api/upload-video starts the unlink of
   the input file and removes the temporary directory, then awaits the
   rollback. *)
P_CatchCleanup(r) ==
  /\ req[r].route = "upload-video"
  /\ Caught(req[r])
  /\ req' = [req EXCEPT ![r] = Tidy(
       [@ EXCEPT !.pc = "rollback", !.outputDir = FALSE,
                 !.unlinking = safeUnlink(req[r])])]
  /\ Audit(r, hist[r])
  /\ UNCHANGED <<martyrs, bucket, now, chunkVars, txVars, utilVars, edgeVars>>

(* Lines 677-702: the handler's catch: rollback, then the output directory
   is removed, the unlinks of the source files that exist are started and
   the deletion of the source object is started.
   index.ts 561-568: the rollback returns and the error response is sent,
   if none was sent before. *)
P_CatchRollback(r, dbOk) ==
  LET id == req[r].selectedNameId IN
  /\ \/ req[r].route = "process-video" /\ Caught(req[r])
     \/ req[r].pc = "rollback"
  /\ martyrs' = Query(dbOk, markNameAsUnrecorded(martyrs, id), martyrs)
  /\ req' = [req EXCEPT ![r] = Tidy(
       IF req[r].route = "upload-video"
         THEN [@ EXCEPT !.pc = "done", !.res = IF @ = 0 THEN 500 ELSE @]
         ELSE [@ EXCEPT !.pc = "remove", !.outputDir = FALSE,
                        !.unlinking = safeUnlink(req[r])])]
  /\ Audit(r, [hist[r] EXCEPT !.rolledBack = TRUE])
  /\ UNCHANGED <<bucket, now, chunkVars, txVars, utilVars, edgeVars>>

(* Lines 696-721: retryOperation(removeObject) settles (a failure is only
   logged) and res.status(500).json() is called: it sends the error
   response, or throws out of the handler when a response was sent. *)
P_CatchRemove(r, fails) ==
  /\ req[r].pc = "remove"
  /\ req' = [req EXCEPT ![r] = Tidy(
       [@ EXCEPT !.pc = "done", !.res = IF @ = 0 THEN 500 ELSE @,
                 !.origInBucket = IF RetrySucceeds(fails, MaxRetries)
                                    THEN FALSE ELSE @])]
  /\ Audit(r, [hist[r] EXCEPT !.resThrew = @ \/ req[r].res # 0,
                              !.removeCalls = @ \cup {SourceKey}])
  /\ UNCHANGED <<martyrs, bucket, now, chunkVars, txVars, utilVars, edgeVars>>


(* ============ chunked upload: /upload-video-chunk, finalize ============= *)
(* Three files keep an uploadChunks map and a chunk handler:                *)
(*   "index"        index.ts, registered first on /api/upload-video-chunk   *)
(*                  and /api/finalize-video-upload;                         *)
(*   "uploadRoutes" routes/uploadRoutes.ts, the router mounted on /api;     *)
(*   "route"        the Next.js route apps/frontend/.../route.ts, which     *)
(*                  forwards a complete file to the backend.                *)
(* The maps are independent of each other: impl says which file is run.    *)

Impls == {"index", "uploadRoutes", "route"}
UploadIds == {"u1"}
Data == {"a", "b"}
FinReqs == {1, 2}
FileName == "clip.webm"
OtherName == "other.webm"

(* values of an array element *)
Null == "null"
Hole == "hole"

(* ---- request fields are strings; parseInt ---- *)
Digits == <<"0", "1", "2", "3", "4", "5">>
NaN == -99
Numeral(n) == Digits[n + 1]
ParseInt(str) ==
  IF \E n \in 1..Len(Digits) : Digits[n] = str
    THEN (CHOOSE n \in 1..Len(Digits) : Digits[n] = str) - 1
  ELSE IF str = "-1" THEN -1
  ELSE NaN

(* ---- JavaScript arrays: index i is position i + 1 ---- *)
NewArray(n) == [i \in 1..n |-> Null]

(* Variant: a slot that holds bytes keeps them. *)
ArraySetOnce(a, i, v) ==
  IF i = NaN \/ i < 0 THEN a
  ELSE IF i < Len(a) THEN (IF a[i + 1] \in {"a", "b"} THEN a
                           ELSE [a EXCEPT ![i + 1] = v])
  ELSE a \o [k \in 1..(i - Len(a)) |-> "hole"] \o <<v>>

(* a[i] = v: an index at or past the length grows the array and leaves
   holes; a negative index or NaN sets a property, not an element. *)
ArraySet(a, i, v) ==
  IF i = NaN \/ i < 0 THEN a
  ELSE IF i < Len(a) THEN [a EXCEPT ![i + 1] = v]
  ELSE a \o [k \in 1..(i - Len(a)) |-> Hole] \o <<v>>

(* every, some and filter visit the elements that are not holes. *)
Elements(a) == {k \in 1..Len(a) : a[k] # Hole}
IsBuffer(c) == c \in Data

(* upload.chunks.every(chunk => chunk !== null) *)
EveryNotNull(a) == \A k \in Elements(a) : a[k] # Null

(* upload.chunks.some(chunk => chunk === undefined): an element is null or
   a buffer, and a hole is not visited. *)
SomeUndefined(a) == \E k \in Elements(a) : a[k] \notin Data \cup {Null}

(* upload.chunks.filter(Boolean) *)
FilterBoolean(a) == SelectSeq(a, IsBuffer)

(* Buffer.concat(list) throws on an element that is no buffer; it reads
   list[i] for every i below the length, so a hole is undefined. *)
ConcatThrows(a) == \E k \in 1..Len(a) : ~IsBuffer(a[k])

NoSession == [totalChunks |-> NaN]
HasSession(u) == uploadChunks[u] # NoSession

(* receivedAt is history, not a field of the program's session: the time
   of the last accepted receive. *)
NewSession(total, id, name, t) ==
  [totalChunks |-> total, chunks |-> NewArray(total), lastActivity |-> t,
   selectedNameId |-> id, fileName |-> name, receivedAt |-> t]

(* A slot of 0..totalChunks-1 that no chunk has filled. *)
Unfilled(sess) ==
  \E i \in 0..(sess.totalChunks - 1) :
    i + 1 > Len(sess.chunks) \/ ~IsBuffer(sess.chunks[i + 1])

(* The response to a chunk request.  error is the code of an error that
   the handler did not catch.  rewrite is history: the index of the slot
   of the request when the slot held other bytes before, else NaN. *)
NoChunkRes ==
  [status |-> 0, uploadId |-> "", isComplete |-> FALSE, counted |-> FALSE,
   receivedChunks |-> 0, totalChunks |-> 0, error |-> "", rewrite |-> NaN]

Status(code) == [NoChunkRes EXCEPT !.status = code]

(* What slot i of the array holds: a hole past the length. *)
SlotOf(a, i) ==
  IF i = NaN \/ i < 0 THEN "none"
  ELSE IF i < Len(a) THEN a[i + 1]
  ELSE Hole

Observed(res, i, before, file) ==
  [res EXCEPT !.rewrite = IF SlotOf(before, i) \in Data \ {file}
                            THEN i ELSE NaN]

(* ---- POST /upload-video-chunk ---- *)

(* The body of a chunk request: the form fields, which are strings, and
   the file of the multipart part. *)
NoFile == "nofile"
IndexStrings == {"-1"} \cup {Numeral(n) : n \in 0..MaxChunks}
TotalStrings == {Numeral(n) : n \in 0..MaxChunks}
(* The owner record and the file name a client sends with its chunks, and
   the bytes it sends: the first client sends either bytes, the second
   the bytes "a". *)
Owners == {<<"1", FileName>>, <<"0", OtherName>>}
Sent == {od \in Owners \X Data : od[1][1] = "1" \/ od[2] = "a"}
WellFormed ==
  {[uploadId |-> u, chunkIndex |-> i, totalChunks |-> t,
    selectedNameId |-> od[1][1], fileName |-> od[1][2], file |-> od[2]] :
     u \in UploadIds, i \in IndexStrings, t \in TotalStrings, od \in Sent}

(* A body with one field left out or not a number. *)
Malformed ==
  LET b == [uploadId |-> "u1", chunkIndex |-> "0", totalChunks |-> "1",
            selectedNameId |-> "1", fileName |-> FileName, file |-> "a"] IN
  {[b EXCEPT !.chunkIndex = ""], [b EXCEPT !.chunkIndex = "x"],
   [b EXCEPT !.totalChunks = ""], [b EXCEPT !.totalChunks = "x"],
   [b EXCEPT !.selectedNameId = ""], [b EXCEPT !.selectedNameId = "x"],
   [b EXCEPT !.uploadId = ""], [b EXCEPT !.fileName = ""],
   [b EXCEPT !.file = NoFile]}

ChunkBodies == WellFormed \cup Malformed

Counted(u, sess, total, complete) ==
  [NoChunkRes EXCEPT !.status = 200, !.uploadId = u, !.isComplete = complete,
                     !.counted = TRUE, !.totalChunks = total,
                     !.receivedChunks = Len(FilterBoolean(sess.chunks))]

(* uploadRoutes.ts 207-272 and index.ts 571-640. *)
B_Chunk(b) ==
  LET u == b.uploadId
      total == ParseInt(b.totalChunks)
      idx == ParseInt(b.chunkIndex)
      id == ParseInt(IF impl = "index" /\ b.selectedNameId = ""
                       THEN "0" ELSE b.selectedNameId)
      missing == \/ b.uploadId = ""
                 \/ b.chunkIndex = ""
                 \/ b.totalChunks = ""
                 \/ impl = "uploadRoutes" /\ b.selectedNameId = ""
                 \/ b.fileName = ""
      fresh == ~HasSession(u)
      sess0 == IF fresh THEN NewSession(total, id, b.fileName, now)
               ELSE uploadChunks[u]
      sess1 == [sess0 EXCEPT !.chunks = ArraySet(@, idx, b.file),
                             !.lastActivity =
                               IF impl = "uploadRoutes" THEN now ELSE @,
                             !.receivedAt = now]
      complete == EveryNotNull(sess1.chunks)
      Seen(res) == Observed(res, idx, sess0.chunks, b.file)
  IN
  /\ impl \in {"index", "uploadRoutes"}
  /\ IF b.file = NoFile \/ missing
       THEN chunkRes' = Status(400) /\ UNCHANGED uploadChunks
     ELSE IF fresh /\ (total = NaN \/ total < 0)
       THEN chunkRes' = Status(500) /\ UNCHANGED uploadChunks
     ELSE /\ uploadChunks' = [uploadChunks EXCEPT ![u] = sess1]
          /\ chunkRes' = Seen(
               IF impl = "uploadRoutes"
                 THEN Counted(u, sess1, sess1.totalChunks, complete)
               ELSE IF complete
                 THEN [Status(200) EXCEPT !.isComplete = TRUE, !.uploadId = u]
               ELSE Counted(u, sess1, total, FALSE))
  /\ UNCHANGED <<martyrs, bucket, now, impl, fwd, fin, pipeVars, txVars, utilVars, edgeVars>>

(* ---- a chunk over the limit of multer ---- *)

(* index.ts 133-150, 571, 642, 943: the layers of the Express application
   that matter for a chunk request, in the order of their registration.
   The router of uploadRoutes.ts registers no error handler. *)
AppLayers ==
  <<"handleMulterError", "/api/upload-video-chunk",
    "/api/finalize-video-upload", "uploadRoutes">>
ErrorHandlers == {"handleMulterError"}
LayerOf(i) ==
  CHOOSE j \in 1..Len(AppLayers) :
    AppLayers[j] = (IF i = "index" THEN "/api/upload-video-chunk"
                    ELSE "uploadRoutes")

(* next(err) in Express: the error goes to the first error-handling layer
   registered after the layer that raised it; handleMulterError answers 413
   for LIMIT_FILE_SIZE; with no such layer the final handler answers 500. *)
ErrorStatus(layer) ==
  IF \E j \in (layer + 1)..Len(AppLayers) : AppLayers[j] \in ErrorHandlers
    THEN 413
    ELSE 500

(* chunkUpload.single('chunk') with limits.fileSize 1 MB: multer passes a
   MulterError LIMIT_FILE_SIZE to next and the handler of the route is not
   called. *)
B_ChunkTooLarge ==
  /\ impl \in {"index", "uploadRoutes"}
  /\ chunkRes' = [Status(ErrorStatus(LayerOf(impl)))
                    EXCEPT !.error = "LIMIT_FILE_SIZE"]
  /\ UNCHANGED <<martyrs, bucket, now, impl, uploadChunks, fwd, fin,
                 pipeVars, txVars, utilVars, edgeVars>>

(* ---- the Next.js route: POST of route.ts 28-152 ---- *)

FwdReqs == {1}
IdleFwd == [pc |-> "idle"]

(* Lines 28-108 and 137-142: the chunk is stored; a complete file is sent
   to the backend's /api/upload-video and the handler awaits the answer in
   slot k, which has to be free. *)
R_Chunk(k, b, big) ==
  LET u == b.uploadId
      total == ParseInt(b.totalChunks)
      idx == ParseInt(b.chunkIndex)
      id == ParseInt(b.selectedNameId)
      fresh == ~HasSession(u)
      sess0 == IF fresh THEN NewSession(total, id, b.fileName, now)
               ELSE uploadChunks[u]
      sess1 == [sess0 EXCEPT !.lastActivity = now,
                             !.chunks = ArraySet(@, idx, b.file),
                             !.receivedAt = now]
      complete == EveryNotNull(sess1.chunks)
      Seen(res) == Observed(res, idx, sess0.chunks, b.file)
  IN
  /\ impl = "route"
  /\ IF \/ b.file = NoFile \/ u = "" \/ idx = NaN \/ total = NaN \/ id = NaN
        \/ b.fileName = ""
       THEN chunkRes' = Status(400) /\ UNCHANGED <<uploadChunks, fwd>>
     ELSE IF big
       THEN chunkRes' = Status(413) /\ UNCHANGED <<uploadChunks, fwd>>
     ELSE IF fresh /\ total < 0
       THEN chunkRes' = Status(500) /\ UNCHANGED <<uploadChunks, fwd>>
     ELSE /\ complete => fwd[k].pc = "idle"
          /\ uploadChunks' = [uploadChunks EXCEPT ![u] = sess1]
          /\ IF complete
               THEN /\ fwd' = [fwd EXCEPT ![k] =
                         [pc |-> "fetch", uploadId |-> u,
                          res |-> Seen(Counted(u, sess1, total, TRUE))]]
                    /\ chunkRes' = chunkRes
               ELSE /\ fwd' = fwd
                    /\ chunkRes' = Seen(Counted(u, sess1, total, FALSE))
  /\ UNCHANGED <<martyrs, bucket, now, impl, fin, pipeVars, txVars, utilVars, edgeVars>>

(* Lines 110-135: the backend has answered, or the fetch has failed: the
   session is deleted in both branches. *)
R_Forwarded(k, ok) ==
  /\ fwd[k].pc = "fetch"
  /\ uploadChunks' = [uploadChunks EXCEPT ![fwd[k].uploadId] = NoSession]
  /\ chunkRes' = IF ok THEN fwd[k].res ELSE Status(500)
  /\ fwd' = [fwd EXCEPT ![k] = IdleFwd]
  /\ UNCHANGED <<martyrs, bucket, now, impl, fin, pipeVars, txVars, utilVars, edgeVars>>

(* ---- the sweep of stale sessions ---- *)

(* Date.now() is read in milliseconds; the clock is observed once per
   period of the sweep, up to MaxTicks periods. *)
Tick ==
  /\ now < MaxTicks * SweepEveryMs
  /\ now' = now + SweepEveryMs
  /\ UNCHANGED <<martyrs, bucket, impl, uploadChunks, chunkRes, fwd, fin,
                 pipeVars, txVars, utilVars, edgeVars>>

(* Variant: a stale session takes every session with it. *)
SweepAll ==
  /\ uploadChunks' =
       [u \in DOMAIN uploadChunks |->
          IF \E v \in DOMAIN uploadChunks :
               /\ HasSession(v)
               /\ now - uploadChunks[v].lastActivity > StaleAfterMs
            THEN NoSession
            ELSE uploadChunks[u]]
  /\ UNCHANGED <<martyrs, bucket, now, impl, chunkRes, fwd, fin,
                 pipeVars, txVars, utilVars, edgeVars>>

(* uploadRoutes.ts 26-35, index.ts 254-263, route.ts 18-26: the callback of
   setInterval deletes the sessions whose lastActivity is more than
   3600000 ms back. *)
Sweep ==
  /\ uploadChunks' =
       [u \in DOMAIN uploadChunks |->
          IF HasSession(u) /\ now - uploadChunks[u].lastActivity > StaleAfterMs
            THEN NoSession
            ELSE uploadChunks[u]]
  /\ UNCHANGED <<martyrs, bucket, now, impl, chunkRes, fwd, fin,
                 pipeVars, txVars, utilVars, edgeVars>>

(* ---- POST /finalize-video-upload ---- *)

VideoIds == Records \cup {0}
NoObject == <<"absent">>
VideoKey(id) == <<"video", id, FileName>>

IdleFin ==
  [pc |-> "idle", uploadId |-> "", selectedNameId |-> 0, file |-> <<>>,
   res |-> 0, incomplete |-> FALSE]

(* The response ends the request: its closure is dropped. *)
Answer(q, code) ==
  [IdleFin EXCEPT !.pc = "done", !.res = code, !.uploadId = q.uploadId]

(* A finalize request between two of its awaits. *)
InFlightFin(f) == fin[f].pc \in {"upload", "mark", "path", "catch"}

(* uploadRoutes.ts 275-308 and index.ts 642-674: the lookup, the gate of
   uploadRoutes.ts, the reassembly, the start of the upload.  incomplete
   notes whether a slot of the session was unfilled. *)
F_Start(f, u) ==
  LET sess == uploadChunks[u]
      q == [IdleFin EXCEPT !.uploadId = u] IN
  /\ impl \in {"index", "uploadRoutes"}
  /\ fin[f].pc \in {"idle", "done"}
  /\ \A g \in FinReqs : g < f => InFlightFin(g)  \* the lowest free slot
  /\ fin' = [fin EXCEPT ![f] =
       IF u = "" THEN Answer(q, 400)
       ELSE IF ~HasSession(u) THEN Answer(q, 404)
       ELSE IF impl = "uploadRoutes" /\ SomeUndefined(sess.chunks)
         THEN Answer(q, 400)
       ELSE IF impl = "uploadRoutes" /\ ConcatThrows(sess.chunks)
         THEN [q EXCEPT !.pc = "catch",
                        !.selectedNameId = sess.selectedNameId,
                        !.incomplete = Unfilled(sess)]
       ELSE [q EXCEPT !.pc = "upload",
                      !.selectedNameId = sess.selectedNameId,
                      !.file = IF impl = "index"
                                 THEN FilterBoolean(sess.chunks)
                                 ELSE sess.chunks,
                      !.incomplete = Unfilled(sess)]]
  /\ UNCHANGED <<martyrs, bucket, now, impl, uploadChunks, chunkRes, fwd, pipeVars, txVars, utilVars, edgeVars>>

(* Lines 308 / 674: uploadFile settles; the buffer is not read again. *)
F_Upload(f, ok) ==
  LET id == fin[f].selectedNameId IN
  /\ fin[f].pc = "upload"
  /\ bucket' = IF ok THEN [bucket EXCEPT !.video[id] = fin[f].file] ELSE bucket
  /\ fin' = [fin EXCEPT ![f].pc = IF ok THEN "mark" ELSE "catch",
                         ![f].file = <<>>]
  /\ UNCHANGED <<martyrs, now, impl, uploadChunks, chunkRes, fwd, pipeVars, txVars, utilVars, edgeVars>>

(* Lines 311 / 677: markNameAsRecorded returns. *)
F_Mark(f, dbOk) ==
  LET id == fin[f].selectedNameId IN
  /\ fin[f].pc = "mark"
  /\ martyrs' = Query(dbOk, markNameAsRecorded(martyrs, id, now), martyrs)
  /\ fin' = [fin EXCEPT ![f].pc = "path"]
  /\ UNCHANGED <<bucket, now, impl, uploadChunks, chunkRes, fwd, pipeVars, txVars, utilVars, edgeVars>>

(* Lines 312-327 / 678-693: updateProcessedVideoPath returns; the session
   is deleted and the success response is sent. *)
F_Path(f, dbOk) ==
  LET id == fin[f].selectedNameId IN
  /\ fin[f].pc = "path"
  /\ martyrs' = Query(dbOk,
                      updateProcessedVideoPath(martyrs, id, VideoKey(id)),
                      martyrs)
  /\ uploadChunks' = [uploadChunks EXCEPT ![fin[f].uploadId] = NoSession]
  /\ fin' = [fin EXCEPT ![f] = Answer(@, 200)]
  /\ UNCHANGED <<bucket, now, impl, chunkRes, fwd, pipeVars, txVars, utilVars, edgeVars>>

(* Lines 328-346 / 694-712: the catch: rollback, the session is deleted,
   the error response is sent. *)
F_Catch(f, dbOk) ==
  LET id == fin[f].selectedNameId IN
  /\ fin[f].pc = "catch"
  /\ martyrs' = Query(dbOk, markNameAsUnrecorded(martyrs, id), martyrs)
  /\ uploadChunks' = [uploadChunks EXCEPT ![fin[f].uploadId] = NoSession]
  /\ fin' = [fin EXCEPT ![f] = Answer(@, 500)]
  /\ UNCHANGED <<bucket, now, impl, chunkRes, fwd, pipeVars, txVars, utilVars, edgeVars>>

(* ---- the specification of the chunked upload ---- *)

(* ======================= statements on one record ====================== *)
(* Two handlers on the record TxRecord, each at its next database
   statement.  A handler of kind "video" or "audio" commits: it awaits
   markNameAsRecorded, then the path update of its kind.  A handler of kind
   "rollback" awaits markNameAsUnrecorded.  Each statement is one UPDATE,
   applied by the database in one step; the handlers' statements interleave
   at the awaits. *)

Txs == {1, 2}
TxRecord == 1
TxKinds == {"video", "audio", "rollback"}
AudioKey(id) == <<"audio", id, "processed.wav">>

(* success is the success field of the result of markNameAsRecorded. *)
IdleTx == [kind |-> "none", pc |-> "done", failed |-> FALSE, success |-> FALSE]
StartTx(kind) ==
  [kind |-> kind, pc |-> IF kind = "rollback" THEN "unmark" ELSE "mark",
   failed |-> FALSE, success |-> FALSE]

(* const markResult = await markNameAsRecorded(selectedNameId) *)
T_Mark(t, dbOk) ==
  /\ tx[t].pc = "mark"
  /\ martyrs' = Query(dbOk, markNameAsRecorded(martyrs, TxRecord, now), martyrs)
  /\ tx' = [tx EXCEPT ![t].pc = "path", ![t].failed = @ \/ ~dbOk,
                       ![t].success =
                         dbOk /\ markNameAsRecordedSuccess(martyrs, TxRecord)]
  /\ UNCHANGED <<bucket, now, pipeVars, chunkVars, utilVars, edgeVars>>

(* await updateProcessedVideoPath(selectedNameId, manifestKey)
   await updateProcessedAudioPath(selectedNameId, objectName) *)
T_Path(t, dbOk) ==
  /\ tx[t].pc = "path"
  /\ martyrs' =
       Query(dbOk,
             IF tx[t].kind = "video"
               THEN updateProcessedVideoPath(martyrs, TxRecord,
                                             ManifestKey(TxRecord))
               ELSE updateProcessedAudioPath(martyrs, TxRecord,
                                             AudioKey(TxRecord)),
             martyrs)
  /\ tx' = [tx EXCEPT ![t].pc = "done", ![t].failed = @ \/ ~dbOk]
  /\ UNCHANGED <<bucket, now, pipeVars, chunkVars, utilVars, edgeVars>>

(* await markNameAsUnrecorded(selectedNameId) *)
T_Unmark(t, dbOk) ==
  /\ tx[t].pc = "unmark"
  /\ martyrs' = Query(dbOk, markNameAsUnrecorded(martyrs, TxRecord), martyrs)
  /\ tx' = [tx EXCEPT ![t].pc = "done", ![t].failed = @ \/ ~dbOk]
  /\ UNCHANGED <<bucket, now, pipeVars, chunkVars, utilVars, edgeVars>>

TxIdle == tx = [t \in Txs |-> IdleTx]

(* ======================= retryOperation, attempt by attempt ============ *)
(* uploadRoutes.ts 38-64.  A slot holds one call of retryOperation(operation,
   3, 1000, ...): the loop is at an invocation of the operation, or at the
   sleep after a failed one, or it has returned, or it has thrown.  calls,
   failed and sleeps count the invocations, the caught errors and the sleeps
   of the call; result is the number of the invocation whose value was
   returned; they are history. *)

RetryOps == {1, 2}
Causes == {"ECONNRESET", "ETIMEDOUT"}
NoError == [attempts |-> 0, cause |-> "none"]

IdleRetry ==
  [pc |-> "idle", attempt |-> 0, calls |-> 0, failed |-> 0, sleeps |-> 0,
   lastError |-> "none", wakeAt |-> 0, result |-> 0, error |-> NoError]

(* Variant: the loop sleeps after every failed attempt. *)
SleepsAfterAlways(attempt, maxRetries) == TRUE

(* if (attempt < maxRetries) await sleep(delayMs) *)
SleepsAfter(attempt, maxRetries) == attempt < maxRetries

(* attempt++ and the test of the for statement; past the last attempt the
   loop is left and the error is thrown:
   `${operationName} failed after ${maxRetries} attempts. Last error: ...` *)
NextAttempt(q, maxRetries) ==
  IF q.attempt + 1 <= maxRetries
    THEN [q EXCEPT !.pc = "call", !.attempt = @ + 1, !.calls = @ + 1]
    ELSE [q EXCEPT !.pc = "thrown", !.attempt = @ + 1,
                   !.error = [attempts |-> maxRetries, cause |-> q.lastError]]

(* Lines 47-51: the call enters the loop and invokes the operation. *)
RT_Start(k) ==
  /\ retry[k].pc = "idle"
  /\ retry' = [retry EXCEPT ![k] = NextAttempt(IdleRetry, MaxRetries)]
  /\ UNCHANGED <<martyrs, bucket, now, tool, dirs, pipeVars, chunkVars, txVars,
                 edgeVars>>

(* Line 51: the awaited operation is fulfilled; its value is returned. *)
RT_Returns(k) ==
  /\ retry[k].pc = "call"
  /\ retry' = [retry EXCEPT ![k].pc = "returned", ![k].result = retry[k].calls]
  /\ UNCHANGED <<martyrs, bucket, now, tool, dirs, pipeVars, chunkVars, txVars,
                 edgeVars>>

(* Lines 52-60: the awaited operation is rejected. *)
RT_Throws(k, cause) ==
  LET q == [retry[k] EXCEPT !.lastError = cause, !.failed = @ + 1] IN
  /\ retry[k].pc = "call"
  /\ retry' = [retry EXCEPT ![k] =
       IF SleepsAfter(q.attempt, MaxRetries)
         THEN [q EXCEPT !.pc = "sleep", !.sleeps = @ + 1,
                        !.wakeAt = now + RetryDelayMs]
         ELSE NextAttempt(q, MaxRetries)]
  /\ UNCHANGED <<martyrs, bucket, now, tool, dirs, pipeVars, chunkVars, txVars,
                 edgeVars>>

(* Line 38: the timer of sleep(delayMs) fires. *)
RT_Wakes(k) ==
  /\ retry[k].pc = "sleep"
  /\ now >= retry[k].wakeAt
  /\ retry' = [retry EXCEPT ![k] = NextAttempt([@ EXCEPT !.wakeAt = 0], MaxRetries)]
  /\ UNCHANGED <<martyrs, bucket, now, tool, dirs, pipeVars, chunkVars, txVars,
                 edgeVars>>

(* The clock, observed once per delay of the retry. *)
RT_Tick ==
  /\ now < MaxDelays * RetryDelayMs
  /\ now' = now + RetryDelayMs
  /\ UNCHANGED <<martyrs, bucket, retry, tool, dirs, pipeVars, chunkVars, txVars,
                 edgeVars>>

(* ======================= the ffmpeg runs and their timers ============== *)
(* uploadRoutes.ts 67-118 (remuxWebM) and 458-661 (the transcode; index.ts
   350-552 has the same promise, events and timer).  Each run has its
   process, the promise that wraps it, and a timer set at its start that is
   never cleared.  The transcode starts once remuxWebM is fulfilled.
   progressAt is history: the time of the last 'progress' event, or of the
   start. *)

Tools == {"remux", "transcode"}

IdleTool ==
  [ff |-> "none", prom |-> "none", timer |-> "unset",
   timeoutTriggered |-> FALSE, startedAt |-> 0, progressAt |-> 0]

(* setTimeout(..., 30000) and setTimeout(..., 300000) *)
TimeoutMs(f) == IF f = "remux" THEN RemuxTimeoutMs ELSE TranscodeTimeoutMs

(* A timer whose delay has passed and whose callback has not run. *)
Due(f) ==
  tool[f].timer = "armed" /\ now >= tool[f].startedAt + TimeoutMs(f)

(* Lines 70-86 / 458-508: the promise is made and the run is set up. *)
FF_Start(f) ==
  /\ tool[f].ff = "none"
  /\ f = "transcode" => tool["remux"].prom = "resolved"
  /\ tool' = [tool EXCEPT ![f] =
       [ff |-> "running", prom |-> "pending", timer |-> "armed",
        timeoutTriggered |-> FALSE, startedAt |-> now, progressAt |-> now]]
  /\ UNCHANGED <<martyrs, bucket, now, retry, dirs, pipeVars, chunkVars, txVars,
                 edgeVars>>

(* Lines 90-96 / 514-540: a 'progress' event: the handler logs and keeps
   statistics; it touches neither the timer nor the promise. *)
FF_Progress(f) ==
  /\ tool[f].ff = "running"
  /\ tool' = [tool EXCEPT ![f].progressAt = now]
  /\ UNCHANGED <<martyrs, bucket, now, retry, dirs, pipeVars, chunkVars, txVars,
                 edgeVars>>

(* Lines 102-106 / 547-650: the 'end' event, which a process that exited as
   it was being killed still emits: if (timeoutTriggered) return; else the
   promise is resolved (remux), or resolved or rejected once the handler's
   publish and commit are through (transcode). *)
FF_End(f, ok) ==
  /\ tool[f].ff \in {"running", "killed"}
  /\ f = "remux" => ok
  /\ tool' = [tool EXCEPT ![f].ff = "ended",
                          ![f].prom =
                            IF tool[f].timeoutTriggered THEN @
                            ELSE Settle(@, IF ok THEN "resolved" ELSE "rejected")]
  /\ UNCHANGED <<martyrs, bucket, now, retry, dirs, pipeVars, chunkVars, txVars,
                 edgeVars>>

(* Lines 97-101 / 541-546: the 'error' event rejects the promise. *)
FF_Error(f) ==
  /\ tool[f].ff \in {"running", "killed"}
  /\ tool' = [tool EXCEPT ![f].ff = "errored",
                          ![f].prom = Settle(@, "rejected")]
  /\ UNCHANGED <<martyrs, bucket, now, retry, dirs, pipeVars, chunkVars, txVars,
                 edgeVars>>

(* Lines 109-116 / 653-660: the callback of the timer: the flag is set, the
   process is sent SIGKILL and the promise is rejected. *)
FF_Timer(f) ==
  /\ Due(f)
  /\ tool' = [tool EXCEPT ![f].timer = "fired",
                          ![f].timeoutTriggered = TRUE,
                          ![f].ff = IF @ = "running" THEN "killed" ELSE @,
                          ![f].prom = Settle(@, "rejected")]
  /\ UNCHANGED <<martyrs, bucket, now, retry, dirs, pipeVars, chunkVars, txVars,
                 edgeVars>>

(* The clock, observed every 30 s; a timer that is due runs first. *)
FF_Tick ==
  /\ now < MaxHalfMinutes * RemuxTimeoutMs
  /\ \A f \in Tools : ~Due(f)
  /\ now' = now + RemuxTimeoutMs
  /\ UNCHANGED <<martyrs, bucket, retry, tool, dirs, pipeVars, chunkVars, txVars,
                 edgeVars>>

(* ======================= the reaper of scratch directories ============= *)
(* utils/cleanup.ts.  An entry of processedDir has a name, spelled by
   Chars; it is there with its mtime, or it is not there.
   swept is history: the reaper removed the entry. *)

TempDir == "temp_1"            \* index.ts 336
HlsDir == "hls_1"              \* uploadRoutes.ts 450
ProcessedDir == "processed"    \* index.ts 85
TemporaryDir == "temporary"

(* The characters of a name. *)
Chars(name) ==
  CASE name = TempDir -> <<"t", "e", "m", "p", "_", "1">>
    [] name = HlsDir -> <<"h", "l", "s", "_", "1">>
    [] name = ProcessedDir -> <<"p", "r", "o", "c", "e", "s", "s", "e", "d">>
    [] name = TemporaryDir -> <<"t", "e", "m", "p", "o", "r", "a", "r", "y">>

Names == {TempDir, HlsDir, ProcessedDir, TemporaryDir}

(* The names of the scratch naming convention among the entries: only
   these reach statSync and rmSync. *)
ScratchNames == {TempDir, HlsDir}

NoEntry == [exists |-> FALSE, mtime |-> 0, swept |-> FALSE]

(* dir.startsWith(prefix) *)
StartsWith(name, prefix) ==
  Len(name) >= Len(prefix) /\ SubSeq(name, 1, Len(prefix)) = prefix

(* Variant: an entry of any age is removed. *)
ExpiredAny(age) == TRUE

(* Variant: an entry of exactly the maximum age is removed too. *)
ExpiredAt(age) == age >= MaxAgeMs

(* if (age > MAX_AGE_MS) *)
Expired(age) == age > MaxAgeMs

(* fs.mkdirSync(dir): the entry is made, in the first MaxBorn hours. *)
Mkdir(name) ==
  /\ ~dirs[name].exists
  /\ now <= MaxBorn * ReaperEveryMs
  /\ dirs' = [dirs EXCEPT ![name] = [NoEntry EXCEPT !.exists = TRUE, !.mtime = now]]
  /\ UNCHANGED <<martyrs, bucket, now, retry, tool, pipeVars, chunkVars, txVars,
                 edgeVars>>

(* const dirs = fs.readdirSync(processedDir): the order of the listing. *)
Listing == <<HlsDir, ProcessedDir, TempDir, TemporaryDir>>

(* if (!dir.startsWith('temp_') && !dir.startsWith('hls_')) continue *)
ScratchNamed(dir) ==
  \/ StartsWith(Chars(dir), <<"t", "e", "m", "p", "_">>)
  \/ StartsWith(Chars(dir), <<"h", "l", "s", "_">>)

(* The calls of one run that can fail, and the try block around each of
   them: the try of the function (8-40) or the try of one entry (23-35). *)
Sites == {"readdir", "stat", "rm"}
Faults == {"stat", "rm"}
TryOf(site) == IF site = "readdir" THEN "function" ELSE "entry"

(* The entry fails in this run: statSync throws, or rmSync throws on an
   entry that is old enough to be removed. *)
Fails(dir, bad, fault) ==
  /\ dir \in bad /\ dirs[dir].exists /\ ScratchNamed(dir)
  /\ fault = "stat" \/ Expired(now - dirs[dir].mtime)

(* Variant: no try around one entry: the first failure ends the loop. *)
VisitedUntilError(bad, fault) ==
  {Listing[i] : i \in {k \in 1..Len(Listing) :
                          \A j \in 1..(k - 1) : ~Fails(Listing[j], bad, fault)}}

(* cleanup.ts 23-35: the catch of one entry logs the error and the loop
   goes on with the next entry: every listed entry is visited. *)
Visited(bad, fault) == {Listing[i] : i \in 1..Len(Listing)}

(* cleanup.ts 7-41: one run of cleanupOldTempDirs in which readdirSync
   fails, or the entries of bad fail at fault.  Every failure is raised
   inside a try block whose catch only logs. *)
Run(readdirFails, bad, fault) ==
  LET seen == IF readdirFails THEN {} ELSE Visited(bad, fault)
      failed == {dir \in seen : Fails(dir, bad, fault)}
      removed == {dir \in seen \ failed :
                    /\ dirs[dir].exists /\ ScratchNamed(dir)
                    /\ Expired(now - dirs[dir].mtime)}
      raised == (IF readdirFails THEN {"readdir"} ELSE {})
                  \cup (IF failed # {} THEN {fault} ELSE {})
  IN
  /\ dirs' = [dir \in Names |->
       IF dir \in removed THEN [NoEntry EXCEPT !.swept = TRUE] ELSE dirs[dir]]
  /\ sweepLog' = [threw |-> \E site \in raised : TryOf(site) = "none",
                  listed |-> ~readdirFails, at |-> now,
                  errors |-> failed, removed |-> removed]
  /\ UNCHANGED <<martyrs, bucket, now, retry, tool, job, client, recorder,
                 pipeVars, chunkVars, txVars>>

(* A run in which nothing fails. *)
cleanupOldTempDirs == Run(FALSE, {}, "stat")

(* The clock, observed once per period of the reaper (cleanup.ts 44). *)
Hour ==
  /\ now < MaxHours * ReaperEveryMs
  /\ now' = now + ReaperEveryMs
  /\ UNCHANGED <<martyrs, bucket, retry, tool, dirs, pipeVars, chunkVars, txVars,
                 edgeVars>>

(* ======================= a job and its scratch directory =============== *)
(* The life of the scratch directory of one request, on the clock:
   uploadRoutes.ts 448-455 (hls_...) and index.ts 336-345 (temp_...) make
   it, the 5 minute timer is armed with the transcode, and the directory is
   removed by the end handler or by the catch of the route.  The names are
   unique per request (timestamp and uuid): a job takes a name that no
   entry has.  MaxJobs requests come, one after the other. *)

IdleJob == [pc |-> "none", dir |-> "", startedAt |-> 0, n |-> 0]

(* The job has made its directory and has not reached its clean-up. *)
InFlightJob == job.pc \in {"transcode", "publish", "rollback"}

(* fs.mkdirSync(outputDir) and the start of the transcode with its timer. *)
J_Start(name) ==
  /\ ~InFlightJob /\ job.n < MaxJobs
  /\ name \in ScratchNames /\ ~dirs[name].exists
  /\ dirs' = [dirs EXCEPT ![name] = [NoEntry EXCEPT !.exists = TRUE, !.mtime = now]]
  /\ job' = [pc |-> "transcode", dir |-> name, startedAt |-> now,
             n |-> job.n + 1]
  /\ UNCHANGED <<martyrs, bucket, now, retry, tool, sweepLog, client, recorder,
                 pipeVars, chunkVars, txVars>>

(* ffmpeg writes a segment file or the manifest into the directory, which
   sets the directory's mtime; it cannot when the directory is gone. *)
J_Segment ==
  /\ job.pc = "transcode" /\ dirs[job.dir].exists
  /\ dirs' = [dirs EXCEPT ![job.dir].mtime = now]
  /\ UNCHANGED <<martyrs, bucket, now, retry, tool, job, sweepLog, client,
                 recorder, pipeVars, chunkVars, txVars>>

(* The 'end' event: the end handler starts the publish. *)
J_End ==
  /\ job.pc = "transcode"
  /\ job' = [job EXCEPT !.pc = "publish"]
  /\ UNCHANGED <<martyrs, bucket, now, retry, tool, dirs, sweepLog, client,
                 recorder, pipeVars, chunkVars, txVars>>

(* uploadRoutes.ts 618-621, index.ts 523: publish and commit are through,
   the end handler removes the directory. *)
J_Published ==
  /\ job.pc = "publish"
  /\ dirs' = [dirs EXCEPT ![job.dir] = NoEntry]
  /\ job' = [job EXCEPT !.pc = "done"]
  /\ UNCHANGED <<martyrs, bucket, now, retry, tool, sweepLog, client, recorder,
                 pipeVars, chunkVars, txVars>>

(* The promise is rejected and the catch of the route runs.
   index.ts 557-561: rmSync(tempDir) comes before the await of the
   rollback; uploadRoutes.ts 677-686: the rollback is awaited first. *)
Rejected ==
  IF job.dir = TempDir
    THEN /\ dirs' = [dirs EXCEPT ![job.dir] = NoEntry]
         /\ job' = [job EXCEPT !.pc = "done"]
    ELSE /\ dirs' = dirs
         /\ job' = [job EXCEPT !.pc = "rollback"]

(* An 'error' event of ffmpeg or a failure of the publish. *)
J_Error ==
  /\ job.pc \in {"transcode", "publish"}
  /\ Rejected
  /\ UNCHANGED <<martyrs, bucket, now, retry, tool, sweepLog, client, recorder,
                 pipeVars, chunkVars, txVars>>

(* uploadRoutes.ts 653-660, index.ts 544-551: the timer set at the start
   fires after 300000 ms, whatever the end handler is doing. *)
J_Timer ==
  /\ job.pc \in {"transcode", "publish"}
  /\ now >= job.startedAt + TranscodeTimeoutMs
  /\ Rejected
  /\ UNCHANGED <<martyrs, bucket, now, retry, tool, sweepLog, client, recorder,
                 pipeVars, chunkVars, txVars>>

(* uploadRoutes.ts 679-686: markNameAsUnrecorded has returned and the
   catch removes the directory. *)
J_RolledBack ==
  /\ job.pc = "rollback"
  /\ dirs' = [dirs EXCEPT ![job.dir] = NoEntry]
  /\ job' = [job EXCEPT !.pc = "done"]
  /\ UNCHANGED <<martyrs, bucket, now, retry, tool, sweepLog, client, recorder,
                 pipeVars, chunkVars, txVars>>

(* The clock while a job runs, in steps of the timer's delay: a timer that
   is due fires first, and the rollback's statement returns before the
   clock is read again. *)
J_Tick ==
  /\ job.pc \in {"transcode", "publish"}
  /\ now < job.startedAt + TranscodeTimeoutMs
  /\ now' = now + TranscodeTimeoutMs
  /\ UNCHANGED <<martyrs, bucket, retry, tool, dirs, pipeVars, chunkVars, txVars,
                 edgeVars>>

(* The clock while no job runs. *)
J_Hour == ~InFlightJob /\ Hour

(* The log of a run: whether it threw to its caller, whether it got the
   listing, its time, the entries whose failure it logged, the entries it
   removed. *)
NoLog ==
  [threw |-> FALSE, listed |-> FALSE, at |-> 0, errors |-> {}, removed |-> {}]
(* ======================= the uploading client ========================== *)
(* RecordingSection.tsx 40-215, uploadMedia: one upload of a recording, at
   its awaits.  The client talks to the handlers of index.ts.  log is
   history: the requests in the order of their sending, a chunk by the
   numeral of its index. *)

IdleClient ==
  [pc |-> "idle", blob |-> <<>>, chunkIndex |-> 0, retryCount |-> 0,
   acked |-> {}, log |-> <<>>]

ClientUploadId == "u1"
Finalize == "finalize"

(* The recordings: MaxChunks chunks at most, alternating bytes. *)
Blob(n) == [i \in 1..n |-> IF i % 2 = 1 THEN "a" ELSE "b"]

(* Lines 70-76: the form of the chunk at chunkIndex. *)
FormData(c) ==
  [uploadId |-> ClientUploadId, chunkIndex |-> Numeral(c.chunkIndex),
   totalChunks |-> Numeral(Len(c.blob)), selectedNameId |-> "1",
   fileName |-> FileName, file |-> c.blob[c.chunkIndex + 1]]

(* Lines 89-92: the fetch of the chunk at index i is started. *)
SendChunk(c, i) ==
  [c EXCEPT !.pc = "chunk", !.chunkIndex = i,
            !.log = Append(@, Numeral(i))]

(* Lines 54, 82-87, 201: the next turn of the for loop, or its end. *)
NextChunk(c) ==
  IF c.chunkIndex + 1 < Len(c.blob)
    THEN SendChunk([c EXCEPT !.retryCount = 0], c.chunkIndex + 1)
    ELSE [c EXCEPT !.pc = "done"]

(* Lines 202-214: the catch of the retry loop, which encloses the fetch
   of the chunk and the fetch of the finalize alike. *)
Catch(c) ==
  IF c.retryCount + 1 < ChunkMaxRetries
    THEN [c EXCEPT !.pc = "sleep", !.retryCount = @ + 1]
    ELSE [c EXCEPT !.pc = "failed", !.retryCount = @ + 1]

(* uploadMedia is called with a recording of n chunks. *)
U_Start(n) ==
  /\ client.pc = "idle"
  /\ client' = SendChunk([IdleClient EXCEPT !.blob = Blob(n)], 0)
  /\ UNCHANGED <<martyrs, bucket, now, pipeVars, chunkVars, txVars, utilVars,
                 job, sweepLog, recorder>>

(* The chunk request reaches the handler while the client awaits it. *)
U_ChunkHandled ==
  /\ client.pc = "chunk" /\ chunkRes = NoChunkRes
  /\ B_Chunk(FormData(client))

(* Lines 94-119: the response to the chunk request. *)
U_ChunkResponse ==
  /\ client.pc = "chunk" /\ chunkRes # NoChunkRes
  /\ chunkRes' = NoChunkRes
  /\ client' =
       IF chunkRes.status # 200 THEN Catch(client)
       ELSE LET c == [client EXCEPT !.acked = @ \cup {client.chunkIndex}] IN
            IF chunkRes.isComplete \/ c.chunkIndex = Len(c.blob) - 1
              THEN [c EXCEPT !.pc = "finalize", !.log = Append(@, Finalize)]
              ELSE NextChunk(c)
  /\ UNCHANGED <<martyrs, bucket, now, impl, uploadChunks, fwd, fin, pipeVars,
                 txVars, utilVars, job, sweepLog, recorder>>

(* The fetch of the chunk rejects: the request or its response is lost. *)
U_ChunkLost ==
  /\ client.pc = "chunk"
  /\ chunkRes' = NoChunkRes
  /\ client' = Catch(client)
  /\ UNCHANGED <<martyrs, bucket, now, impl, uploadChunks, fwd, fin, pipeVars,
                 txVars, utilVars, job, sweepLog, recorder>>

(* The finalize request reaches the handler while the client awaits it. *)
U_FinalizeHandled ==
  /\ client.pc = "finalize" /\ fin[1].pc = "idle"
  /\ F_Start(1, ClientUploadId)

(* Lines 121-201: the response to the finalize request.  The body of a
   response of index.ts has no status field, so nothing is thrown while it
   is read. *)
U_FinalizeResponse ==
  /\ client.pc = "finalize" /\ fin[1].pc = "done"
  /\ fin' = [fin EXCEPT ![1] = IdleFin]
  /\ client' = IF fin[1].res = 200 THEN NextChunk(client) ELSE Catch(client)
  /\ UNCHANGED <<martyrs, bucket, now, impl, uploadChunks, chunkRes, fwd,
                 pipeVars, txVars, utilVars, job, sweepLog, recorder>>

(* Lines 205-208, 87-92: the delay is over and the loop sends the chunk
   again. *)
U_Wake ==
  /\ client.pc = "sleep"
  /\ client' = SendChunk(client, client.chunkIndex)
  /\ UNCHANGED <<martyrs, bucket, now, pipeVars, chunkVars, txVars, utilVars,
                 job, sweepLog, recorder>>

(* ======================= the recorder's upload queue =================== *)
(* part_003 242-298, uploadChunk, with uploadUrl set and autoUpload on.
   The blobs of the recorder are numbered in the order of their
   dataavailable events.  pc is the position of the call that holds the
   flag: at the await of the XMLHttpRequest, or in the loop over the queue.
   inFlight, sent and turn are history: the blobs whose request is out,
   the blobs in the order of their xhr.send, and the parity of the number
   of turns that the loop over the queue has made. *)

IdleRecorder ==
  [pc |-> "idle", isUploading |-> FALSE, queue |-> <<>>, arrived |-> 0,
   inFlight |-> {}, sent |-> <<>>, error |-> FALSE, turn |-> 0]

(* Lines 243-259, 280-281: the entry of uploadChunk(blob) up to its first
   await: the blob is queued when the flag is set, else the flag is set
   and the request is sent. *)
uploadChunk(q, blob) ==
  IF q.isUploading
    THEN [q EXCEPT !.queue = Append(@, blob)]
    ELSE [q EXCEPT !.isUploading = TRUE, !.pc = "xhr",
                   !.inFlight = @ \cup {blob}, !.sent = Append(@, blob)]

(* Lines 328-347: a dataavailable event with data.  It is a task of the
   event loop: it runs when no call is between two awaits of the loop over
   the queue, whose continuations are microtasks. *)
R_Data ==
  /\ recorder.pc \in {"idle", "xhr"}
  /\ recorder.arrived < MaxBlobs
  /\ recorder' = uploadChunk([recorder EXCEPT !.arrived = @ + 1],
                             recorder.arrived + 1)
  /\ UNCHANGED <<martyrs, bucket, now, pipeVars, chunkVars, txVars, utilVars,
                 job, sweepLog, client>>

(* Lines 265-275, 286-296: the request ends.  onload with a 2xx status
   resolves and the call enters the loop over the queue; another status or
   onerror rejects, and catch and finally run. *)
R_Load(ok) ==
  /\ recorder.pc = "xhr"
  /\ recorder' =
       IF ok THEN [recorder EXCEPT !.pc = "drain", !.inFlight = {}]
       ELSE [recorder EXCEPT !.pc = "idle", !.inFlight = {},
                             !.isUploading = FALSE, !.error = TRUE]
  /\ UNCHANGED <<martyrs, bucket, now, pipeVars, chunkVars, txVars, utilVars,
                 job, sweepLog, client>>

(* Lines 279-284: one turn of the loop over the queue: shift, and the
   call of uploadChunk(nextChunk), which is awaited. *)
R_Drain ==
  /\ recorder.pc = "drain" /\ recorder.queue # <<>>
  /\ recorder' = uploadChunk([recorder EXCEPT !.queue = Tail(@),
                                               !.turn = 1 - @],
                             Head(recorder.queue))
  /\ UNCHANGED <<martyrs, bucket, now, pipeVars, chunkVars, txVars, utilVars,
                 job, sweepLog, client>>

(* Lines 279, 294-296: the queue is empty, the loop ends, finally clears
   the flag. *)
R_Drained ==
  /\ recorder.pc = "drain" /\ recorder.queue = <<>>
  /\ recorder' = [recorder EXCEPT !.pc = "idle", !.isUploading = FALSE]
  /\ UNCHANGED <<martyrs, bucket, now, pipeVars, chunkVars, txVars, utilVars,
                 job, sweepLog, client>>


UtilIdle ==
  /\ retry = [k \in RetryOps |-> IdleRetry]
  /\ tool = [f \in Tools |-> IdleTool]
  /\ dirs = [dir \in Names |-> NoEntry]
  /\ job = IdleJob
  /\ sweepLog = NoLog
  /\ client = IdleClient
  /\ recorder = IdleRecorder

(* ======================= specifications ================================ *)

ChunksIdle ==
  /\ uploadChunks = [u \in UploadIds |-> NoSession]
  /\ chunkRes = NoChunkRes
  /\ fwd = [k \in FwdReqs |-> IdleFwd]
  /\ fin = [f \in FinReqs |-> IdleFin]

PipeIdle ==
  /\ req = [r \in Reqs |-> IdleReq]
  /\ hist = [r \in Reqs |-> NoHist]

(* A record is new, or holds the asset of an earlier successful attempt. *)
InitAssets == [Records -> 0..MaxSegs]

StoresWith(a) ==
  /\ now = 1
  /\ martyrs = [id \in Records |->
       IF a[id] = 0 THEN FreshRow ELSE PublishedRow(id, 1)]
  /\ bucket = [manifest |-> a, segs |-> [id \in Records |-> 1..a[id]],
               video |-> [id \in VideoIds |-> NoObject]]

InitStores == \E a \in InitAssets : StoresWith(a)

(* The same, the published asset being of one segment. *)
InitStoresSmall == \E a \in [Records -> {0, 1}] : StoresWith(a)

(* The chunk handlers read and write neither the table nor the bucket. *)
InitChunks ==
  /\ StoresWith([id \in Records |-> 0])
  /\ PipeIdle
  /\ ChunksIdle
  /\ TxIdle
  /\ UtilIdle
  /\ impl \in Impls

NextChunks ==
  \/ \E b \in ChunkBodies : B_Chunk(b)
  \/ B_ChunkTooLarge
  \/ \E k \in FwdReqs, b \in ChunkBodies, big \in BOOLEAN : R_Chunk(k, b, big)
  \/ \E k \in FwdReqs, ok \in BOOLEAN : R_Forwarded(k, ok)

SpecChunks == InitChunks /\ [][NextChunks]_vars

(* ---- the specification of the sweep ---- *)
(* The chunks of one upload of two chunks arrive while the clock advances
   and the sweep runs. *)
SweepBodies ==
  {b \in WellFormed : /\ b.totalChunks = "2" /\ b.chunkIndex \in {"0", "1"}
                      /\ b.file = "a" /\ b.selectedNameId = "1"}

InitSweep == InitChunks

NextSweep ==
  \/ \E b \in SweepBodies : B_Chunk(b)
  \/ \E k \in FwdReqs, b \in SweepBodies, big \in BOOLEAN : R_Chunk(k, b, big)
  \/ \E k \in FwdReqs, ok \in BOOLEAN : R_Forwarded(k, ok)
  \/ Tick
  \/ Sweep

SpecSweep == InitSweep /\ [][NextSweep]_vars

(* ---- the specification of the finalize requests ---- *)
(* The sessions are filled by the chunk handler of the same file, here with
   well-formed bodies that carry the same bytes, owner and file name. *)

FinalizeBodies ==
  {b \in WellFormed : /\ b.file = "a" /\ b.chunkIndex # "-1"
                      /\ b.selectedNameId = "1" /\ b.fileName = FileName}

InitFinalize ==
  /\ InitStoresSmall
  /\ PipeIdle
  /\ ChunksIdle
  /\ TxIdle
  /\ UtilIdle
  /\ impl \in {"index", "uploadRoutes"}

NextFinalize ==
  \/ \E b \in FinalizeBodies : B_Chunk(b)
  \/ \E f \in FinReqs, u \in UploadIds \cup {""} : F_Start(f, u)
  \/ \E f \in FinReqs, ok \in BOOLEAN : F_Upload(f, ok)
  \/ \E f \in FinReqs, dbOk \in BOOLEAN : F_Mark(f, dbOk)
  \/ \E f \in FinReqs, dbOk \in BOOLEAN : F_Path(f, dbOk)
  \/ \E f \in FinReqs, dbOk \in BOOLEAN : F_Catch(f, dbOk)

SpecFinalize == InitFinalize /\ [][NextFinalize]_vars

(* ---- the specification of two uploads ---- *)
(* Two clients upload two chunks each under their own uploadId, the first
   the bytes "a" and the second the bytes "b", and finalize, while the
   sweep runs and the clock advances by more than the age of a stale
   session, MaxQuiet times.  The handlers are those of uploadRoutes.ts;
   the uploads to the bucket fail or succeed, the database answers. *)
TwoIds == {"u1", "u2"}

PairBodies ==
  {[b EXCEPT !.uploadId = u, !.file = IF u = "u1" THEN "a" ELSE "b"] :
     b \in {c \in WellFormed : /\ c.totalChunks = "2"
                                /\ c.chunkIndex \in {"0", "1"}
                                /\ c.selectedNameId = "1"},
     u \in TwoIds}

Quiet ==
  /\ now < MaxQuiet * (StaleAfterMs + SweepEveryMs)
  /\ now' = now + StaleAfterMs + SweepEveryMs
  /\ UNCHANGED <<martyrs, bucket, impl, uploadChunks, chunkRes, fwd, fin,
                 pipeVars, txVars, utilVars, edgeVars>>

InitPair ==
  /\ StoresWith([id \in Records |-> 0])
  /\ PipeIdle
  /\ uploadChunks = [u \in TwoIds |-> NoSession]
  /\ chunkRes = NoChunkRes
  /\ fwd = [k \in FwdReqs |-> IdleFwd]
  /\ fin = [f \in FinReqs |-> IdleFin]
  /\ TxIdle
  /\ UtilIdle
  /\ impl = "uploadRoutes"

NextPair ==
  \/ \E b \in PairBodies : B_Chunk(b)
  \/ \E f \in FinReqs, u \in TwoIds : F_Start(f, u)
  \/ \E f \in FinReqs, ok \in BOOLEAN : F_Upload(f, ok)
  \/ \E f \in FinReqs : F_Mark(f, TRUE)
  \/ \E f \in FinReqs : F_Path(f, TRUE)
  \/ \E f \in FinReqs : F_Catch(f, TRUE)
  \/ Quiet
  \/ Sweep

SpecPair == InitPair /\ [][NextPair]_vars

(* ---- the specification of the client's upload ---- *)
(* One client uploads one recording to the handlers of index.ts. *)
InitClient ==
  /\ StoresWith([id \in Records |-> 0])
  /\ PipeIdle
  /\ ChunksIdle
  /\ TxIdle
  /\ UtilIdle
  /\ impl = "index"

NextClient ==
  \/ \E n \in 1..MaxChunks : U_Start(n)
  \/ U_ChunkHandled
  \/ U_ChunkResponse
  \/ U_ChunkLost
  \/ U_FinalizeHandled
  \/ U_FinalizeResponse
  \/ U_Wake
  \/ \E ok \in BOOLEAN : F_Upload(1, ok)
  \/ \E dbOk \in BOOLEAN : F_Mark(1, dbOk)
  \/ \E dbOk \in BOOLEAN : F_Path(1, dbOk)
  \/ \E dbOk \in BOOLEAN : F_Catch(1, dbOk)

SpecClient == InitClient /\ [][NextClient]_vars

(* ---- the specification of the statements on one record ---- *)

InitDb ==
  /\ InitStoresSmall
  /\ PipeIdle
  /\ ChunksIdle
  /\ impl = "index"
  /\ UtilIdle
  /\ tx \in [Txs -> {StartTx(k) : k \in TxKinds}]

NextDb ==
  \/ \E t \in Txs, dbOk \in BOOLEAN : T_Mark(t, dbOk)
  \/ \E t \in Txs, dbOk \in BOOLEAN : T_Path(t, dbOk)
  \/ \E t \in Txs, dbOk \in BOOLEAN : T_Unmark(t, dbOk)
  \/ Tick

SpecDb == InitDb /\ [][NextDb]_vars

(* ---- the specification of retryOperation ---- *)
(* Two calls of retryOperation run side by side, as the uploads of two
   segments do. *)

InitCommon ==
  /\ StoresWith([id \in Records |-> 0])
  /\ PipeIdle
  /\ ChunksIdle
  /\ TxIdle
  /\ UtilIdle
  /\ impl = "index"

NextRetry ==
  \/ \E k \in RetryOps : RT_Start(k)
  \/ \E k \in RetryOps : RT_Returns(k)
  \/ \E k \in RetryOps, cause \in Causes : RT_Throws(k, cause)
  \/ \E k \in RetryOps : RT_Wakes(k)
  \/ RT_Tick

SpecRetry == InitCommon /\ [][NextRetry]_vars

(* ---- the specification of the ffmpeg runs ---- *)

NextTools ==
  \/ \E f \in Tools : FF_Start(f)
  \/ \E f \in Tools : FF_Progress(f)
  \/ \E f \in Tools, ok \in BOOLEAN : FF_End(f, ok)
  \/ \E f \in Tools : FF_Error(f)
  \/ \E f \in Tools : FF_Timer(f)
  \/ FF_Tick

SpecTools == InitCommon /\ [][NextTools]_vars

(* ---- the specification of the reaper ---- *)

NextReaper ==
  \/ \E name \in Names : Mkdir(name)
  \/ cleanupOldTempDirs
  \/ Hour

SpecReaper == InitCommon /\ [][NextReaper]_vars

(* The reaper on scratch directories that fail at statSync or at rmSync. *)
NextFaults ==
  \/ \E name \in ScratchNames : Mkdir(name)
  \/ \E readdirFails \in BOOLEAN, bad \in SUBSET ScratchNames, fault \in Faults :
       Run(readdirFails, bad, fault)
  \/ Hour

SpecFaults == InitCommon /\ [][NextFaults]_vars

(* Jobs, directories left by jobs that died with the process, and the
   reaper, on one clock. *)
NextScratch ==
  \/ \E name \in ScratchNames : Mkdir(name)
  \/ \E name \in ScratchNames : J_Start(name)
  \/ J_Segment
  \/ J_End
  \/ J_Published
  \/ J_Error
  \/ J_Timer
  \/ J_RolledBack
  \/ J_Tick
  \/ J_Hour
  \/ cleanupOldTempDirs

SpecScratch == InitCommon /\ [][NextScratch]_vars

(* ---- the specification of the recorder's upload queue ---- *)
(* Every request ends, and the continuations of the loop over the queue
   run: the event loop runs a pending microtask. *)
NextRecorder ==
  \/ R_Data
  \/ \E ok \in BOOLEAN : R_Load(ok)
  \/ R_Drain
  \/ R_Drained

SpecRecorder ==
  /\ InitCommon
  /\ [][NextRecorder]_vars
  /\ WF_vars(\E ok \in BOOLEAN : R_Load(ok))
  /\ WF_vars(R_Drain)
  /\ WF_vars(R_Drained)

(* ======================= properties of retryOperation ================== *)

(* C22: a call of retryOperation invokes its operation at most maxRetries
   (3) times; it returns the value of the first invocation that succeeded
   and invokes nothing after it; it sleeps after a failed invocation that
   is not the last, and only then, for the delay; it throws only when all
   maxRetries invocations have failed, and the error carries maxRetries
   and the cause of the last failure. *)
C22_RetryPolicy ==
  /\ [](\A k \in RetryOps :
          LET q == retry[k] IN
          /\ q.calls <= MaxRetries
          /\ q.pc = "call" => q.failed = q.calls - 1 /\ q.sleeps = q.calls - 1
          /\ q.pc = "sleep" => /\ q.failed = q.calls /\ q.sleeps = q.calls
                               /\ q.calls < MaxRetries
          /\ q.pc = "returned" => /\ q.result = q.calls
                                  /\ q.failed = q.calls - 1
                                  /\ q.sleeps = q.calls - 1
          /\ q.pc = "thrown" => /\ q.calls = MaxRetries
                                /\ q.failed = MaxRetries
                                /\ q.sleeps = MaxRetries - 1
                                /\ q.error.attempts = MaxRetries)
  /\ [][\A k \in RetryOps :
          /\ retry[k].pc \in {"returned", "thrown"} => retry'[k] = retry[k]
          /\ (retry[k].pc = "call" /\ retry'[k].pc = "sleep")
               => retry'[k].wakeAt = now + RetryDelayMs
          /\ (retry[k].pc = "sleep" /\ retry'[k].pc # "sleep")
               => now >= retry[k].wakeAt /\ retry'[k].pc = "call"
          /\ \A cause \in Causes :
               (RT_Throws(k, cause) /\ retry'[k].pc = "thrown")
                 => retry'[k].error.cause = cause
    ]_vars

(* One call has thrown after three failed invocations whose last cause was
   not the cause the other call met; the other call returned the value of
   its second invocation. *)
C22_Witness ==
  \E k, j \in RetryOps :
    /\ retry[k].pc = "thrown" /\ retry[k].error.cause = "ETIMEDOUT"
    /\ retry[j].pc = "returned" /\ retry[j].result = 2
    /\ retry[j].lastError = "ECONNRESET"

(* ======================= properties of the ffmpeg runs ================= *)

(* C26: a remux that has not ended 30 s after its start is killed and its
   promise rejected: the tool never runs beyond 30 s, and the timer's
   callback kills a running tool and rejects a pending promise; the promise
   is settled once: neither an 'end' after the timeout nor a timer after a
   successful 'end' changes a settled result. *)
C26_RemuxTimeout ==
  /\ [](tool["remux"].ff = "running"
         => now - tool["remux"].startedAt <= RemuxTimeoutMs)
  /\ [][FF_Timer("remux")
         => /\ tool["remux"].ff = "running" => tool'["remux"].ff = "killed"
            /\ tool["remux"].prom = "pending" => tool'["remux"].prom = "rejected"
       ]_vars
  /\ [][tool["remux"].prom \in {"resolved", "rejected"}
         => tool'["remux"].prom = tool["remux"].prom]_vars

(* The remux ended well and its timer fired afterwards: still a success. *)
C26_Witness ==
  /\ tool["remux"].prom = "resolved"
  /\ tool["remux"].timer = "fired"
  /\ tool["remux"].timeoutTriggered

(* C27: the timer kills a running transcode only when no 'progress' event
   was seen for a full 5 minutes. *)
C27_KilledOnlyWithoutProgress ==
  [][(FF_Timer("transcode") /\ tool["transcode"].ff = "running")
       => now - tool["transcode"].progressAt >= TranscodeTimeoutMs]_vars

(* ======================= properties of the reaper ====================== *)

(* C30: one sweep removes exactly the entries of the scratch root whose
   name follows the scratch naming convention (temp_..., hls_...) and that
   were last modified more than 24 hours ago; every other entry, one of
   the convention aged 24 hours or less and one of another name of any
   age, is as it was. *)
C30_ReaperThresholdAndScope ==
  [][cleanupOldTempDirs
       => \A name \in Names :
            IF /\ dirs[name].exists
               /\ name \in ScratchNames
               /\ now - dirs[name].mtime > 24 * ReaperEveryMs
              THEN ~dirs'[name].exists
              ELSE /\ dirs'[name].exists = dirs[name].exists
                   /\ dirs'[name].mtime = dirs[name].mtime]_vars

(* A sweep has removed a scratch directory; a scratch directory aged 23
   hours and another entry aged more than 24 hours are still there. *)
C30_Witness ==
  /\ dirs[TempDir].swept
  /\ dirs[HlsDir].exists /\ now - dirs[HlsDir].mtime = 23 * ReaperEveryMs
  /\ dirs[TemporaryDir].exists
  /\ now - dirs[TemporaryDir].mtime > MaxAgeMs

(* C31: the scratch directory of a job in flight, one that has made its
   directory and has not reached its clean-up, is there: no run of the
   reaper has removed it, whenever the runs come. *)
C31_ReaperSparesJobsInFlight ==
  InFlightJob => dirs[job.dir].exists /\ ~dirs[job.dir].swept

(* The reaper ran while the job was in flight and removed the other
   scratch directory, left 24 hours before; the job's directory is there. *)
C31_Witness ==
  /\ InFlightJob /\ dirs[job.dir].exists
  /\ sweepLog.listed /\ sweepLog.at > job.startedAt
  /\ sweepLog.removed # {} /\ job.dir \notin sweepLog.removed

(* C39: no run of the reaper throws to its caller, and in every run that
   got the listing, whatever entries failed at statSync or at rmSync,
   every other entry that follows the naming convention and is older than
   24 hours is removed.  A step that keeps the clock and makes no entry is
   a run. *)
C39_ReaperErrorIsolation ==
  /\ [](~sweepLog.threw)
  /\ [][(/\ now' = now /\ sweepLog'.listed
         /\ \A name \in Names : dirs'[name].exists => dirs[name].exists)
        => \A name \in ScratchNames \ sweepLog'.errors :
             (dirs[name].exists /\ now - dirs[name].mtime > 24 * ReaperEveryMs)
               => ~dirs'[name].exists]_vars

(* A run logged the failure of hls_1, which is still there, and removed
   temp_1, the entry listed after it. *)
C39_Witness ==
  /\ sweepLog.errors = {HlsDir} /\ dirs[HlsDir].exists
  /\ sweepLog.removed = {TempDir} /\ dirs[TempDir].swept
  /\ ~sweepLog.threw

(* ======================= properties of the record store ================ *)

Commits == {"video", "audio"}

(* C20: markNameAsRecorded on a recorded record leaves is_recorded and
   recorded_at as they are and reports failure; it changes them only on an
   unrecorded record; of two commits on one record at most one is told
   success. *)
C20_ConditionalCommit ==
  /\ [][\A t \in Txs :
          LET old == martyrs[TxRecord]
              new == martyrs'[TxRecord] IN
          (old.is_recorded /\ \E dbOk \in BOOLEAN : T_Mark(t, dbOk))
            => /\ new.is_recorded = old.is_recorded
               /\ new.recorded_at = old.recorded_at
               /\ ~tx'[t].success]_vars
  /\ []((\A t \in Txs : tx[t].kind \in Commits)
          => Cardinality({t \in Txs : tx[t].success}) <= 1)

(* One commit was told success; later the other one ran its statement on
   the recorded record and was told failure. *)
C20_Witness ==
  \E t, o \in Txs :
    /\ t # o
    /\ tx[t].kind \in Commits /\ tx[t].success
    /\ tx[o].kind \in Commits /\ tx[o].pc = "path"
    /\ ~tx[o].success /\ ~tx[o].failed
    /\ martyrs[TxRecord].is_recorded
    /\ martyrs[TxRecord].recorded_at < now

(* The fields a rollback clears are clear. *)
Unrecorded(row) ==
  ~row.is_recorded /\ row.recorded_at = NULL /\ row.processed_audio_path = NullPath

(* C21: a rollback returns without raising an error, whether or not the
   record store applies its statement; an applied rollback leaves the
   record unrecorded with its video path as it was, whatever the record
   was before, and one more rollback would change nothing; on a record
   that is already unrecorded it changes nothing. *)
C21_RollbackIdempotent ==
  [][\A t \in Txs, dbOk \in BOOLEAN :
       T_Unmark(t, dbOk) =>
         LET old == martyrs[TxRecord]
             new == martyrs'[TxRecord] IN
         /\ tx'[t].pc = "done"
         /\ ~dbOk => new = old
         /\ dbOk => /\ Unrecorded(new)
                    /\ new.processed_video_path = old.processed_video_path
                    /\ markNameAsUnrecorded(martyrs', TxRecord) = martyrs'
                    /\ Unrecorded(old) => new = old
    ]_vars

(* Two rollbacks were applied to a record that was recorded: the second
   one ran on the unrecorded record. *)
C21_Witness ==
  /\ \A t \in Txs : tx[t].kind = "rollback" /\ tx[t].pc = "done" /\ ~tx[t].failed
  /\ Unrecorded(martyrs[TxRecord])
  /\ martyrs[TxRecord].processed_video_path = ManifestKey(TxRecord)

(* ======================= properties of the chunked upload ============== *)

(* A chunk request for a known uploadId, and the response its handler made
   in the step: route.ts keeps the response of a complete upload until the
   backend has answered. *)
Addressed == {b \in ChunkBodies : b.uploadId \in UploadIds}
BodiesAt ==
  [i \in 0..MaxChunks, d \in Data |->
     {b \in Addressed : ParseInt(b.chunkIndex) = i /\ b.file = d}]
Receive(b) ==
  B_Chunk(b) \/ \E k \in FwdReqs, big \in BOOLEAN : R_Chunk(k, b, big)
Reply ==
  IF \E k \in FwdReqs : fwd[k].pc = "idle" /\ fwd'[k].pc = "fetch"
    THEN (LET k == CHOOSE k \in FwdReqs : fwd'[k].pc = "fetch" IN fwd'[k].res)
    ELSE chunkRes'

(* C11: an accepted receive of chunk index k whose slot already holds other
   bytes leaves the slot holding the new bytes, leaves the length of the
   array and every other slot as they were, and reports the completeness
   and the count that the session had before the call. *)
C11_RereceiptIdempotent ==
  [][LET r == Reply
         u == r.uploadId
         i == r.rewrite IN
     (r.status = 200 /\ i # NaN /\ HasSession(u)) =>
       LET old == uploadChunks[u].chunks
           new == uploadChunks'[u].chunks IN
       \A d \in Data \ {SlotOf(old, i)} : \A b \in BodiesAt[i, d] :
         (SlotOf(old, i) \in Data /\ b.uploadId = u /\ Receive(b))
         => /\ SlotOf(new, i) = b.file
            /\ Len(new) = Len(old)
            /\ \A k \in 1..Len(old) : k # i + 1 => new[k] = old[k]
            /\ r.isComplete = EveryNotNull(old)
            /\ r.counted => r.receivedChunks = Len(FilterBoolean(old))
    ]_vars

(* An accepted receive has replaced the bytes of a slot, in a session that
   holds both kinds of bytes. *)
C11_Witness ==
  LET u == chunkRes.uploadId IN
  /\ chunkRes.status = 200
  /\ chunkRes.rewrite # NaN
  /\ HasSession(u)
  /\ \A d \in Data : \E k \in 0..MaxChunks :
        SlotOf(uploadChunks[u].chunks, k) = d

(* C12: a session has as many chunk slots as its totalChunks, from its
   creation to its removal. *)
C12_SlotsEqualTotal ==
  \A u \in UploadIds :
    HasSession(u) => Len(uploadChunks[u].chunks) = uploadChunks[u].totalChunks

(* A step in which a chunk handler made its response: it sent it, or
   route.ts kept it for the end of the forward. *)
Replied ==
  \/ chunkRes' # chunkRes /\ fwd' = fwd
  \/ \E k \in FwdReqs : fwd[k].pc = "idle" /\ fwd'[k].pc = "fetch"

(* C13: an accepted receive reports isComplete exactly when every index
   0..totalChunks-1 of its session has been received by then, and then the
   number of received chunks of the session is totalChunks. *)
C13_CompleteIffAllReceived ==
  [][LET r == Reply
         u == r.uploadId IN
     (Replied /\ r.status = 200 /\ uploadChunks'[u] # NoSession) =>
       LET s == uploadChunks'[u] IN
       /\ r.isComplete <=>
            \A k \in 0..(s.totalChunks - 1) : SlotOf(s.chunks, k) \in Data
       /\ r.isComplete => Len(FilterBoolean(s.chunks)) = s.totalChunks
    ]_vars

(* C14: a finalize that fails leaves its session as it was: the session and
   its chunks are there for the next finalize. *)
C14_FailedFinalizeKeepsSession ==
  [][\A f \in FinReqs :
       LET u == fin[f].uploadId IN
       (/\ fin[f].pc = "catch"
        /\ HasSession(u)
        /\ \E dbOk \in BOOLEAN : F_Catch(f, dbOk))
       => uploadChunks'[u] = uploadChunks[u]
    ]_vars

(* C15: a receive whose chunk is over 1 MB is answered with the too-large
   error (413) and changes no session. *)
C15_OversizeRejected ==
  [][(\/ B_ChunkTooLarge
      \/ \E k \in FwdReqs, b \in WellFormed : R_Chunk(k, b, TRUE))
     => chunkRes'.status = 413 /\ uploadChunks' = uploadChunks
    ]_vars

(* A chunk request without its file or without one of the form fields. *)
Lacking ==
  {b \in ChunkBodies :
     \/ b.file = NoFile
     \/ "" \in {b.uploadId, b.chunkIndex, b.totalChunks, b.selectedNameId,
                 b.fileName}}

(* C16: a receive that lacks the chunk or a required field is answered 400,
   a finalize of an unknown uploadId is answered 404, and neither changes a
   session or a record. *)
C16_ClientErrorsChangeNothing ==
  [][/\ \A b \in Lacking :
          Receive(b) => /\ chunkRes'.status = 400
                        /\ uploadChunks' = uploadChunks
                        /\ martyrs' = martyrs
     /\ \A f \in FinReqs, u \in UploadIds :
          (~HasSession(u) /\ F_Start(f, u))
            => /\ fin'[f].pc = "done" /\ fin'[f].res = 404
               /\ uploadChunks' = uploadChunks
               /\ martyrs' = martyrs
    ]_vars

(* C17: the first accepted receive for an uploadId creates the session, and
   the lastActivity of a session is the time of its last accepted receive. *)
C17_LastActivityIsLastReceive ==
  /\ [][(Replied /\ Reply.status = 200)
          => uploadChunks'[Reply.uploadId] # NoSession]_vars
  /\ [](\A u \in UploadIds :
          HasSession(u)
            => uploadChunks[u].lastActivity = uploadChunks[u].receivedAt)

(* C18: a sweep deletes a session exactly when its last accepted receive is
   more than one hour back. *)
C18_SweepDeletesExactlyStale ==
  [][Sweep =>
       \A u \in UploadIds :
         HasSession(u) =>
           (uploadChunks'[u] = NoSession
              <=> now - uploadChunks[u].receivedAt > StaleAfterMs)
    ]_vars

(* C19: an accepted receive on an existing session leaves its totalChunks,
   its owner record id and its file name as the first receive set them, and
   the totalChunks of a response is the totalChunks of the session. *)
C19_SessionFieldsFixed ==
  [][LET r == Reply
         u == r.uploadId IN
     (Replied /\ r.status = 200) =>
       LET old == uploadChunks[u]
           new == uploadChunks'[u] IN
       /\ HasSession(u) =>
            /\ new.totalChunks = old.totalChunks
            /\ new.selectedNameId = old.selectedNameId
            /\ new.fileName = old.fileName
       /\ r.counted => r.totalChunks = new.totalChunks
    ]_vars

(* C33: the session of an uploadId changes only in a step that concerns
   that uploadId: an accepted receive that names it, the end of a finalize
   request that names it, or a sweep when the session itself is stale.  A
   receive, a finalize or a sweep-deletion for another uploadId leaves its
   slots, totalChunks, owner record and file name as they were. *)
C33_UploadsIndependent ==
  [][\A u \in TwoIds :
       uploadChunks'[u] # uploadChunks[u] =>
         \/ /\ uploadChunks'[u] # NoSession
            /\ chunkRes'.status = 200 /\ chunkRes'.uploadId = u
            /\ fin' = fin /\ now' = now
         \/ /\ uploadChunks'[u] = NoSession
            /\ \E f \in FinReqs : /\ fin[f].pc \in {"path", "catch"}
                                   /\ fin[f].uploadId = u
                                   /\ fin'[f].pc = "done"
         \/ /\ uploadChunks'[u] = NoSession
            /\ fin' = fin /\ chunkRes' = chunkRes
            /\ now - uploadChunks[u].lastActivity > StaleAfterMs
    ]_vars

(* The finalize of one upload has committed and deleted its session, the
   sweep has removed nothing of the other upload, whose session holds its
   first chunk and is not stale. *)
C33_Witness ==
  /\ \E f \in FinReqs : fin[f].pc = "done" /\ fin[f].res = 200
                         /\ fin[f].uploadId = "u1"
  /\ ~HasSession("u1")
  /\ HasSession("u2")
  /\ uploadChunks["u2"].chunks = <<"b", Null>>
  /\ now > StaleAfterMs
  /\ now - uploadChunks["u2"].lastActivity <= StaleAfterMs

(* The positions of the log that hold the sending of a finalize request. *)
FinalizeSends == {k \in 1..Len(client.log) : client.log[k] = Finalize}

(* C36: the client sends the chunks in increasing order of index, chunk
   k+1 only after chunk k was acknowledged, and the finalize request at
   most once and only after every chunk was acknowledged; after a finalize
   request it sends nothing more, whatever the answer. *)
C36_ClientProtocol ==
  LET log == client.log
      total == Len(client.blob) IN
  /\ \A k \in 1..(Len(log) - 1) :
        log[k] # Finalize /\ log[k + 1] # Finalize =>
          /\ ParseInt(log[k]) <= ParseInt(log[k + 1])
          /\ ParseInt(log[k + 1]) <= ParseInt(log[k]) + 1
  /\ client.pc = "chunk" /\ client.chunkIndex > 0 =>
        client.chunkIndex - 1 \in client.acked
  /\ client.pc = "finalize" => client.acked = 0..(total - 1)
  /\ Cardinality(FinalizeSends) <= 1
  /\ \A k \in FinalizeSends : k = Len(log)

(* C37: the record is marked recorded only when the object that finalize
   uploaded for it is the recording: the client's chunks, all of them, in
   the order of their indexes. *)
C37_RecordedObjectIsWholeRecording ==
  martyrs[1].is_recorded => bucket.video[1] = client.blob

(* The blobs in the queue. *)
QueuedBlobs == {recorder.queue[k] : k \in 1..Len(recorder.queue)}

(* C38: at most one request of the recorder is in flight; a blob that
   arrives while a request is in flight is queued and, unless a request
   fails, is sent later, the sent blobs being in the order of their
   arrival; and the loop over the queue ends: the queue is empty and the
   flag is cleared. *)
C38_QueueDrains ==
  /\ [](Cardinality(recorder.inFlight) <= 1)
  /\ [](\A k \in 1..(Len(recorder.sent) - 1) :
          recorder.sent[k] < recorder.sent[k + 1] \/ recorder.error)
  /\ \A blob \in 1..MaxBlobs :
       (blob \in QueuedBlobs /\ recorder.pc = "xhr")
         ~> (blob \in recorder.inFlight \/ recorder.error)
  /\ (recorder.pc = "drain")
       ~> (recorder.queue = <<>> /\ ~recorder.isUploading)

(* C1: a finalize request on a session with an unfilled slot among
   0..totalChunks-1 reassembles no bytes, uploads nothing and does not mark
   the record: it is never at the upload or at the commit. *)
C1_IncompleteFinalizeStops ==
  \A f \in FinReqs :
    fin[f].incomplete => fin[f].pc \notin {"upload", "mark", "path"}

(* C9: no two finalize requests of the same uploadId are in flight
   together: the second one is rejected or does nothing. *)
C9_OneFinalizeInFlight ==
  \A f, g \in FinReqs :
    (f # g /\ InFlightFin(f) /\ InFlightFin(g))
      => fin[f].uploadId # fin[g].uploadId

(* C10: the count of received chunks a chunk response reports is at most
   the totalChunks of the session. *)
C10_ReceivedWithinTotal ==
  (chunkRes.counted /\ HasSession(chunkRes.uploadId))
    => chunkRes.receivedChunks <= uploadChunks[chunkRes.uploadId].totalChunks

(* ---- the specification of /process-video ---- *)

Init ==
  /\ InitStores
  /\ PipeIdle
  /\ ChunksIdle
  /\ TxIdle
  /\ UtilIdle
  /\ impl = "index"

Next ==
  \E r \in Reqs :
    \/ \E id \in Records : P_Start(r, id)
    \/ \E id \in Records : P_StartUpload(r, id)
    \/ P_ProbeError(r)
    \/ \E fails \in 0..MaxRetries : P_Download(r, fails)
    \/ \E outcome \in {"end", "error", "timeout"} : P_Remux(r, outcome)
    \/ P_FfmpegError(r)
    \/ \E n \in SegIds : P_FfmpegEnd(r, n)
    \/ P_Timer(r)
    \/ \E fails \in 0..MaxRetries : P_UploadManifest(r, fails)
    \/ \E s \in SegIds, fails \in 0..MaxRetries : P_UploadSegment(r, s, fails)
    \/ \E dbOk \in BOOLEAN : P_Mark(r, dbOk)
    \/ \E dbOk \in BOOLEAN : P_Path(r, dbOk)
    \/ \E dbOk \in BOOLEAN : P_EndCatch(r, dbOk)
    \/ P_ResTimeout(r)
    \/ P_Respond(r)
    \/ P_CatchCleanup(r)
    \/ \E dbOk \in BOOLEAN : P_CatchRollback(r, dbOk)
    \/ \E fails \in 0..MaxRetries : P_CatchRemove(r, fails)
    \/ \E ok \in BOOLEAN : P_Unlinked(r, ok)

Spec == Init /\ [][Next]_vars

(* ---- the specification of the publish ---- *)
(* One request of either handler from the state in which its transcode
   runs, the transcode writing more than SegmentConcurrency segments, up
   to MaxQueued more.  The response timer is left out: it changes the
   response only. *)

Transcoding(route) ==
  [IdleReq EXCEPT !.route = route, !.pc = "ffmpeg", !.selectedNameId = 1,
                  !.origInBucket = (route = "process-video"),
                  !.tempPath = TRUE,
                  !.remuxedPath = (route = "process-video"),
                  !.outputDir = TRUE, !.prom = "pending",
                  !.ff = "running", !.timer = "armed"]

InitPublish ==
  /\ StoresWith([id \in Records |-> 0])
  /\ \E route \in {"process-video", "upload-video"} :
       req = [r \in Reqs |-> Transcoding(route)]
  /\ hist = [r \in Reqs |-> NoHist]
  /\ ChunksIdle
  /\ TxIdle
  /\ UtilIdle
  /\ impl = "index"

NextPublish ==
  \E r \in Reqs :
    \/ P_FfmpegError(r)
    \/ \E n \in PubSegs \ 1..SegmentConcurrency : P_FfmpegEnd(r, n)
    \/ P_Timer(r)
    \/ \E fails \in 0..MaxRetries : P_UploadManifest(r, fails)
    \/ \E s \in PubSegs, fails \in 0..MaxRetries : P_UploadSegment(r, s, fails)
    \/ \E dbOk \in BOOLEAN : P_Mark(r, dbOk)
    \/ \E dbOk \in BOOLEAN : P_Path(r, dbOk)
    \/ \E dbOk \in BOOLEAN : P_EndCatch(r, dbOk)
    \/ P_Respond(r)
    \/ P_CatchCleanup(r)
    \/ \E dbOk \in BOOLEAN : P_CatchRollback(r, dbOk)
    \/ \E fails \in 0..MaxRetries : P_CatchRemove(r, fails)
    \/ \E ok \in BOOLEAN : P_Unlinked(r, ok)

SpecPublish == InitPublish /\ [][NextPublish]_vars

(* ======================= properties of /process-video ================== *)

(* C23: at most 5 segment uploads of a publish are in flight at any moment,
   an upload being in flight from its start until its retryOperation has
   settled; when the manifest is up every segment the transcode wrote is
   handed to the limiter, in flight or queued; and whenever an upload
   settles while segments are queued, the first queued one is started. *)
C23_BoundedParallelism ==
  /\ [](\A r \in Reqs : Cardinality(InFlight(req[r].seg)) <= SegmentConcurrency)
  /\ [][\A r \in Reqs :
          (req[r].endh = "manifest" /\ req'[r].endh = "segments")
            => \A s \in 1..req[r].nseg : req'[r].seg[s] \in {"inflight", "queued"}
       ]_vars
  /\ [][\A r \in Reqs :
          (Queued(req[r].seg) # {} /\ InFlight(req'[r].seg) # InFlight(req[r].seg))
            => /\ req'[r].seg[Min(Queued(req[r].seg))] = "inflight"
               /\ Cardinality(InFlight(req'[r].seg)) = SegmentConcurrency
       ]_vars

(* The transcode wrote more than 5 segments; the last one, which was
   queued, is in flight with four others, one upload having settled. *)
C23_Witness ==
  \E r \in Reqs :
    LET n == req[r].nseg IN
    /\ n > SegmentConcurrency
    /\ req[r].seg[n] = "inflight"
    /\ Cardinality(InFlight(req[r].seg)) = SegmentConcurrency
    /\ Queued(req[r].seg) = {}


RowOf(r) == martyrs[req[r].selectedNameId]

(* C2: within one attempt the commit (markNameAsRecorded, then
   updateProcessedVideoPath) is issued only after the manifest upload and
   the upload of every segment of that attempt have succeeded.  A segment
   is uploaded once per attempt, so an attempt with a failed segment never
   has all of its segments uploaded and, by this, never commits. *)
C2_CommitOnlyAfterFullPublish ==
  \A r \in Reqs :
    hist[r].committed => /\ hist[r].manifest
                         /\ hist[r].nseg >= 1
                         /\ hist[r].uploaded = 1..hist[r].nseg

(* An attempt that wrote MaxSegs segments has committed. *)
C2_Witness ==
  \E r \in Reqs :
    /\ hist[r].committed
    /\ hist[r].nseg = MaxSegs
    /\ hist[r].uploaded = SegIds
    /\ RowOf(r).is_recorded
    /\ RowOf(r).processed_video_path = ManifestKey(req[r].selectedNameId)

(* C24: a segment upload is in flight, queued or done only in an attempt
   whose manifest upload has succeeded, the manifest then being in the
   bucket; an attempt whose manifest upload failed all its retries starts
   no segment upload. *)
C24_ManifestFirst ==
  \A r \in Reqs :
    (InFlight(req[r].seg) \cup Queued(req[r].seg) \cup hist[r].uploaded # {})
      => /\ hist[r].manifest
         /\ bucket.manifest[req[r].selectedNameId] >= 1

(* The manifest of an attempt is up, one of its segments is uploaded and
   another one is in flight. *)
C24_Witness ==
  \E r \in Reqs :
    /\ hist[r].manifest
    /\ hist[r].uploaded # {}
    /\ InFlight(req[r].seg) # {}
    /\ hist[r].failure = "none"

(* C3: a record with is_recorded and a manifest key in processed_video_path
   refers to a manifest all of whose segments are in the bucket. *)
C3_RecordedAssetComplete ==
  \A id \in Records :
    (martyrs[id].is_recorded /\ martyrs[id].processed_video_path = ManifestKey(id))
      => /\ bucket.manifest[id] >= 1
         /\ 1..bucket.manifest[id] \subseteq bucket.segs[id]

(* C4: when a request that failed in remux, transcode, transcode timeout or
   publish has returned, is_recorded has its value of before the attempt. *)
C4_FailureKeepsIsRecorded ==
  \A r \in Reqs :
    (/\ req[r].pc = "done"
     /\ req[r].res = 500
     /\ hist[r].failure \in {"remux", "remux timeout", "transcode",
                             "transcode timeout", "upload"})
      => RowOf(r).is_recorded = hist[r].pre

(* C5: an error response is sent only after the rollback was called. *)
C5_RollbackBeforeErrorResponse ==
  \A r \in Reqs :
    req[r].res \in {500, 504} => hist[r].rolledBack

(* C6: a rollback the record store applies leaves the record of the video
   attempt with is_recorded false, recorded_at NULL and
   processed_video_path NULL. *)
C6_RollbackClearsVideoFields ==
  [][\A r \in Reqs :
       (P_CatchRollback(r, TRUE) \/ P_EndCatch(r, TRUE))
         => LET row == martyrs'[req[r].selectedNameId] IN
            /\ ~row.is_recorded
            /\ row.recorded_at = NULL
            /\ row.processed_video_path = NullPath]_vars

(* C7: no state shows a record that is recorded while the path of the
   committed media kind is still unset. *)
C7_CommitIsOneStep ==
  \A id \in Records :
    martyrs[id].is_recorded => martyrs[id].processed_video_path # NullPath

(* C25: when a request has answered 200 or 500 and its handler is through,
   the scratch directory of the attempt, the downloaded (or uploaded) source
   file and the remuxed file no longer exist. *)
C25_ScratchGoneAtReturn ==
  \A r \in Reqs :
    (req[r].pc = "done" /\ req[r].res \in {200, 500})
      => ~req[r].outputDir /\ ~req[r].tempPath /\ ~req[r].remuxedPath

(* C28: a request whose handler is through has sent one response, and no
   call that would send a second one has raised an error: after the 504 of
   the request timeout the later result of the pipeline is dropped
   silently. *)
C28_OneResponseNoError ==
  \A r \in Reqs :
    /\ req[r].pc = "done" => req[r].res \in {200, 500, 504}
    /\ ~hist[r].resThrew

(* C29: a success response of a request whose commit had a statement fail
   or be refused carries the results of the two statements. *)
C29_CommitFailureSurfaced ==
  \A r \in Reqs :
    (/\ req[r].res = 200
     /\ hist[r].dbMark = "failure" \/ hist[r].dbPath = "failure")
      => /\ hist[r].body.dbMarkUpdate = hist[r].dbMark
         /\ hist[r].body.dbPathUpdate = hist[r].dbPath

(* C32: when a /process-video request whose manifest or segment upload
   failed is through, removeObject was called for every object of the
   attempt that had been uploaded, the manifest and the segments. *)
C32_PublishFailureDeletesUploads ==
  \A r \in Reqs :
    (/\ req[r].pc = "done" /\ hist[r].failure = "upload"
     /\ SourceKey \in hist[r].removeCalls)
      => LET id == req[r].selectedNameId IN
         /\ hist[r].manifest => ManifestKey(id) \in hist[r].removeCalls
         /\ \A s \in hist[r].uploaded : SegmentKey(id, s) \in hist[r].removeCalls

(* C34: in /process-video, once the 5 minute timer has rejected the
   attempt and the rollback that follows has been called, no later step of
   the attempt makes the record recorded. *)
C34_NoCommitAfterTimerReject ==
  [][\A r \in Reqs :
       (/\ req[r].route = "process-video"
        /\ hist[r].failure = "transcode timeout" /\ hist[r].rolledBack)
         => (RowOf(r)'.is_recorded => RowOf(r).is_recorded)]_vars

(* C35: in /process-video, once both statements of the commit have
   succeeded and the promise of the pipeline is fulfilled, no later step of the request calls markNameAsUnrecorded or
   removes the source object. *)
C35_CommittedNeverRolledBack ==
  [][\A r \in Reqs :
       (/\ req[r].route = "process-video"
        /\ hist[r].dbMark = "success" /\ hist[r].dbPath = "success"
        /\ req[r].prom = "resolved")
         => /\ ~ \E dbOk \in BOOLEAN : P_CatchRollback(r, dbOk)
            /\ ~ \E fails \in 0..MaxRetries : P_CatchRemove(r, fails)]_vars

(* ======================= properties of the statements on one record ==== *)

PathOfKind(row, kind) ==
  IF kind = "video" THEN row.processed_video_path ELSE row.processed_audio_path

FullyRecorded(row, kind) ==
  row.is_recorded /\ row.recorded_at # NULL /\ PathOfKind(row, kind) # NullPath

FullyUnrecorded(row, kind) ==
  ~row.is_recorded /\ row.recorded_at = NULL /\ PathOfKind(row, kind) = NullPath

(* C8: when a commit and a rollback on the same record have both finished,
   every statement of both having been applied, the record is fully recorded
   or fully unrecorded in the fields of the committed media kind. *)
C8_CommitRollbackNotMixed ==
  \A c, r \in Txs :
    (/\ tx[c].kind \in {"video", "audio"} /\ tx[c].pc = "done" /\ ~tx[c].failed
     /\ tx[r].kind = "rollback" /\ tx[r].pc = "done" /\ ~tx[r].failed)
    => \/ FullyRecorded(martyrs[TxRecord], tx[c].kind)
       \/ FullyUnrecorded(martyrs[TxRecord], tx[c].kind)

====
